---- MODULE Spec2Model ----
(***************************************************************************)
(* A model of scripts/generate-summary.py: the transport retry policy,     *)
(* the text/time normalisation helpers, the twelve source adapters, the    *)
(* aggregation loop of main(), sort_events and the renderer.               *)
(*                                                                         *)
(* Strings are sequences of characters.  A character is a one-letter TLA+  *)
(* string; a Japanese literal of the source that the program only ever     *)
(* handles as a whole (a label such as 開場, a sentinel such as 記載なし)  *)
(* is one character whose name is its romanisation.                        *)
(***************************************************************************)
EXTENDS Integers, Sequences, FiniteSets, TLC

VARIABLES
    \* fetch_text / fetch_bytes (one call)
    f_pc, f_fn, f_timeout, f_reqs, f_first, f_out,
    \* sort_events (one call)
    s_pc, s_in, s_out,
    \* one adapter run
    a_pc, a_key, a_world, a_out,
    \* main()
    pc, args, sources, template, idx, results, outcomes, rendered, exit_code,
    \* render_from_template (one call)
    r_pc, r_tpl, r_results, r_out,
    \* normalize_hhmm (one call)
    n_pc, n_in, n_out

fetchVars  == <<f_pc, f_fn, f_timeout, f_reqs, f_first, f_out>>
sortVars   == <<s_pc, s_in, s_out>>
scrapeVars == <<a_pc, a_key, a_world, a_out>>
mainVars   == <<pc, args, sources, template, idx, results, outcomes, rendered, exit_code>>
renderVars == <<r_pc, r_tpl, r_results, r_out>>
timeVars   == <<n_pc, n_in, n_out>>
vars       == <<fetchVars, sortVars, scrapeVars, mainVars, renderVars, timeVars>>

-----------------------------------------------------------------------------
(* Characters and strings                                                  *)

Digits == {"0", "1", "2", "3", "4", "5", "6", "7", "8", "9"}

\* The characters of the model in code-point order (Python compares strings
\* by code point); the Japanese literals come after every ASCII character.
CharOrder ==
    <<"chr", "bel", "bs", "nl", " ", "\"", "#", "&", "'", "-", "/",
      "0", "1", "2", "3", "4", "5", "6", "7", "8", "9",
      ":", ";", "<", ">", "D", "\\", "a", "axes", "b", "c", "kitara", "kyobun",
      "makomanai_icearena", "mountalive", "musicfun", "n", "other_type",
      "sapporo_community_plaza", "sapporo_dome", "sapporo_shiminhall", "sora_scc",
      "wess", "zepp_sapporo",
      "yotei", "saijimei-fumei", "kouenmei-fumei", "gatsu-event-hyou", "shuen",
      "kisai-nashi", "kaijo", "kaien", "(1bu)", "(2bu)", "(3bu)">>

\* The place of every character in CharOrder.
CodeMap ==
    [c \in {CharOrder[i] : i \in 1..Len(CharOrder)} |->
        CHOOSE i \in 1..Len(CharOrder) : CharOrder[i] = c]

Code(c) == CodeMap[c]

IsDigit(c) == c \in Digits

DigitVal(c) == Code(c) - Code("0")

DigitChar(n) == CharOrder[Code("0") + n]

RECURSIVE StrLess(_, _)
\* s < t for Python strings: lexicographic by code point, a proper prefix first.
StrLess(s, t) ==
    IF t = <<>> THEN FALSE
    ELSE IF s = <<>> THEN TRUE
    ELSE IF Head(s) = Head(t) THEN StrLess(Tail(s), Tail(t))
    ELSE Code(Head(s)) < Code(Head(t))

Min(S) == CHOOSE x \in S : \A y \in S : x <= y

\* Python's None where a string is optional; None and "" are both falsy.
None == <<"None">>

Falsy(x) == x = None \/ x = <<>>

\* Python's  x or y  on optional strings.
OrElse(x, y) == IF Falsy(x) THEN y ELSE x

\* The default of EventItem.open_time / start_time / end_time: 記載なし.
NOT_SPECIFIED == <<"kisai-nashi">>

-----------------------------------------------------------------------------
(* Normalisation helpers                                                   *)

IsSpace(c) == c \in {" ", "nl"}

RECURSIVE CollapseFrom(_, _)
\* re.sub(r"[\t\r\n ]+", " ", s) scanning from the left; prev tells whether
\* the character before was white space.
CollapseFrom(s, prev) ==
    IF s = <<>> THEN <<>>
    ELSE IF IsSpace(Head(s))
         THEN (IF prev THEN <<>> ELSE <<" ">>) \o CollapseFrom(Tail(s), TRUE)
         ELSE <<Head(s)>> \o CollapseFrom(Tail(s), FALSE)

RECURSIVE Strip(_)
\* str.strip() on a string whose white space is already collapsed.
Strip(s) ==
    IF s = <<>> THEN <<>>
    ELSE IF IsSpace(Head(s)) THEN Strip(Tail(s))
    ELSE IF IsSpace(s[Len(s)]) THEN Strip(SubSeq(s, 1, Len(s) - 1))
    ELSE s

collapse_ws(s) == Strip(CollapseFrom(s, FALSE))

\* The match of \d{1,2}:\d{2} starting exactly at position i of s: two hour
\* digits are tried first, then one.
TimeAt(s, i) ==
    IF /\ i + 4 <= Len(s)
       /\ IsDigit(s[i]) /\ IsDigit(s[i + 1]) /\ s[i + 2] = ":"
       /\ IsDigit(s[i + 3]) /\ IsDigit(s[i + 4])
    THEN [ok |-> TRUE, h |-> SubSeq(s, i, i + 1), m |-> SubSeq(s, i + 3, i + 4),
          last |-> i + 4]
    ELSE IF /\ i + 3 <= Len(s)
            /\ IsDigit(s[i]) /\ s[i + 1] = ":"
            /\ IsDigit(s[i + 2]) /\ IsDigit(s[i + 3])
    THEN [ok |-> TRUE, h |-> SubSeq(s, i, i), m |-> SubSeq(s, i + 2, i + 3),
          last |-> i + 3]
    ELSE [ok |-> FALSE, h |-> <<>>, m |-> <<>>, last |-> 0]

\* The text a TimeAt match covers.
TimeText(t) == t.h \o <<":">> \o t.m

\* re.search(r"(\d{1,2}):(\d{2})", s): the leftmost match.
SearchTime(s) ==
    LET P == {i \in 1..Len(s) : TimeAt(s, i).ok}
    IN  IF P = {} THEN TimeAt(s, Len(s) + 1) ELSE TimeAt(s, Min(P))

\* int() of a string of one or two digits.
IntOf(h) == IF Len(h) = 1 THEN DigitVal(h[1]) ELSE 10 * DigitVal(h[1]) + DigitVal(h[2])

\* f"{n:02d}" for 0 <= n <= 99.
Fmt02(n) == <<DigitChar(n \div 10), DigitChar(n % 10)>>

normalize_hhmm(value) ==
    IF Falsy(value) THEN None
    ELSE LET m == SearchTime(value)
         IN  IF ~m.ok THEN None ELSE Fmt02(IntOf(m.h)) \o <<":">> \o m.m

\* Whether label occurs in text starting at position i (the empty label
\* occurs everywhere).
LabelAt(text, label, i) ==
    /\ i + Len(label) - 1 <= Len(text)
    /\ \A k \in 1..Len(label) : text[i + k - 1] = label[k]

\* The first position >= i of text that holds no white space (Len+1 if none).
SkipSpace(text, i) ==
    Min({j \in i..(Len(text) + 1) : j = Len(text) + 1 \/ ~IsSpace(text[j])})

\* The first position >= i of text that holds a digit (Len+1 if none).
SkipNonDigits(text, i) ==
    Min({j \in i..(Len(text) + 1) : j = Len(text) + 1 \/ IsDigit(text[j])})

\* extract_time's first pattern, (\d{1,2}:\d{2})\s*label : the start
\* positions at which it matches.
TimeThenLabel(text, label) ==
    {i \in 1..Len(text) :
        /\ TimeAt(text, i).ok
        /\ LabelAt(text, label, SkipSpace(text, TimeAt(text, i).last + 1))}

\* extract_time's second pattern, label[^\d]*(\d{1,2}:\d{2}) : the start
\* positions at which it matches.
LabelThenTime(text, label) ==
    {i \in 1..(Len(text) + 1) :
        /\ LabelAt(text, label, i)
        /\ TimeAt(text, SkipNonDigits(text, i + Len(label))).ok}

extract_time(text, label) ==
    IF TimeThenLabel(text, label) # {}
    THEN TimeText(TimeAt(text, Min(TimeThenLabel(text, label))))
    ELSE IF LabelThenTime(text, label) # {}
    THEN TimeText(TimeAt(text,
             SkipNonDigits(text, Min(LabelThenTime(text, label)) + Len(label))))
    ELSE None

extract_any_hhmm(text) ==
    LET m == SearchTime(IF text = None THEN <<>> ELSE text)
    IN  IF m.ok THEN normalize_hhmm(TimeText(m)) ELSE None

\* re.search(r"終演.*予定|予定.*終演", t): both words on one line.
EndEstimatedIn(t) ==
    \E i, j \in 1..Len(t) :
        /\ i < j
        /\ {t[i], t[j]} = {"shuen", "yotei"}
        /\ \A k \in i..j : t[k] # "nl"

RECURSIVE StripLines(_, _)
\* strip_tags once the tags are gone: collapse_ws on every line, blank
\* lines dropped, the rest joined by newlines.  line is the line being read.
StripLines(s, line) ==
    IF s = <<>>
    THEN collapse_ws(line)
    ELSE IF Head(s) = "nl"
    THEN LET done == collapse_ws(line)
             rest == StripLines(Tail(s), <<>>)
         IN  IF done = <<>> THEN rest
             ELSE IF rest = <<>> THEN done
             ELSE done \o <<"nl">> \o rest
    ELSE StripLines(Tail(s), Append(line, Head(s)))

\* strip_tags on text that holds no markup and no entity: the line work.
strip_tags(s) == IF s = None THEN <<>> ELSE StripLines(s, <<>>)

\* first_line(text).
first_line(text) ==
    IF Falsy(text) THEN <<>>
    ELSE LET P == {i \in 1..Len(text) : text[i] = "nl"}
         IN  Strip(IF P = {} THEN text ELSE SubSeq(text, 1, Min(P) - 1))

extract_times(text) ==
    LET t == strip_tags(text)
    IN  [open  |-> normalize_hhmm(extract_time(t, <<"kaijo">>)),
         start |-> normalize_hhmm(extract_time(t, <<"kaien">>)),
         end   |-> normalize_hhmm(extract_time(t, <<"shuen">>)),
         end_estimated |-> EndEstimatedIn(t)]

-----------------------------------------------------------------------------
(* Dates                                                                   *)

\* f"{n:04d}" for 0 <= n <= 9999.
Fmt04(n) == Fmt02(n \div 100) \o Fmt02(n % 100)

\* datetime.date.isoformat().
isoformat(date_obj) ==
    Fmt04(date_obj.y) \o <<"-">> \o Fmt02(date_obj.m) \o <<"-">> \o Fmt02(date_obj.d)

\* The target dates of the runs that are checked.
TargetDates == {[y |-> 2025, m |-> 5, d |-> 1]}

-----------------------------------------------------------------------------
(* EventItem and SiteResult                                                *)

\* The dataclass EventItem with its defaults; date_text and flyer_alt, which
\* only the renderer prints, are left out.
EventItem(site, title, date_iso, venue) ==
    [site |-> site, title |-> title, date_iso |-> date_iso, venue |-> venue,
     open_time |-> NOT_SPECIFIED, start_time |-> NOT_SPECIFIED,
     end_time |-> NOT_SPECIFIED, end_estimated |-> FALSE,
     url |-> <<>>, flyer_image |-> <<>>, flyer_missing |-> <<>>, links |-> <<>>]

\* The dataclass SiteResult.
SiteResult(key, label, date_obj, events, note) ==
    [key |-> key, label |-> label, date_obj |-> date_obj, events |-> events,
     note |-> note]

-----------------------------------------------------------------------------
(* sort_events                                                             *)

\* re.fullmatch(r"\d{1,2}:\d{2}", s or "").
FullMatchHHMM(s) == ~Falsy(s) /\ TimeAt(s, 1).ok /\ TimeAt(s, 1).last = Len(s)

\* The key function of sort_events.
SortKey(ev) ==
    <<ev.date_iso,
      IF FullMatchHHMM(ev.start_time) THEN ev.start_time ELSE <<"9", "9", ":", "9", "9">>,
      ev.title>>

\* Python's < on the key tuples.
KeyLess(k1, k2) ==
    \/ StrLess(k1[1], k2[1])
    \/ k1[1] = k2[1] /\ StrLess(k1[2], k2[2])
    \/ k1[1] = k2[1] /\ k1[2] = k2[2] /\ StrLess(k1[3], k2[3])

RECURSIVE InsertStable(_, _)
\* Put ev into the sorted list after every element that is not greater.
InsertStable(ev, sorted) ==
    IF sorted = <<>> THEN <<ev>>
    ELSE IF KeyLess(SortKey(ev), SortKey(Head(sorted))) THEN <<ev>> \o sorted
    ELSE <<Head(sorted)>> \o InsertStable(ev, Tail(sorted))

RECURSIVE SortedStable(_, _)
\* sorted(events, key=key): Python's sort is stable.
SortedStable(events, acc) ==
    IF events = <<>> THEN acc
    ELSE SortedStable(Tail(events), InsertStable(Head(events), acc))

sort_events(events) == SortedStable(events, <<>>)

\* The longest list handed to sort_events in the sort check.
MaxSortLen == 2

\* Sequences over S of length at most n.
SeqUpTo(S, n) == UNION {[1..k -> S] : k \in 0..n}

SortDates == {isoformat([y |-> 2025, m |-> 5, d |-> 1]), isoformat([y |-> 2025, m |-> 4, d |-> 30])}

SortStarts ==
    {NOT_SPECIFIED, <<"9", ":", "3", "0">>, <<"1", "0", ":", "0", "0">>,
     <<"2", "5", ":", "0", "0">>}

SortTitles == {<<"a">>, <<"b">>}

SortSites == {<<"a">>, <<"b">>}

\* The events the sort check draws its lists from.
SortEvents ==
    {[EventItem(site, title, d, NOT_SPECIFIED) EXCEPT !.start_time = st] :
        site \in SortSites, title \in SortTitles, d \in SortDates, st \in SortStarts}

-----------------------------------------------------------------------------
(* What an adapter reads: the listing page and the detail pages            *)

\* Texts of the source that the program only moves around.
NO_MATCH       == <<"gaitou-event-nashi">>            \* 該当イベントなし
NO_FLYER       == <<"flyer-nashi">>                   \* フライヤーなし（掲載なし）
UNKNOWN_TITLE  == <<"kouenmei-fumei">>                \* 公演名不明
PARTIAL_PREFIX == <<"ichibu-shutoku-shippai: ">>      \* 一部取得失敗:
FAILED_PREFIX  == <<"shutoku-shippai: ">>             \* 取得失敗:
AXES_FAILED_PREFIX == <<"shutoku-shippai(event.json): ">>
AXES_NOTE      == <<"tsukibetsu-data-shutoku-fuka">>  \* 月別イベントデータを自動取得できません…
ICEARENA_NOTE  == <<"gekkan-pdf-nomi">>               \* 月間PDFのみ掲載のため…
ICEARENA_FLYER == <<"gekkan-pdf-nomi-keisai">>        \* 月間PDFのみ掲載（自動日次抽出未対応）
UNSUPPORTED    == <<"mitaiou-source">>                \* 未対応ソース

\* str(e) of the exceptions an adapter can meet once fetch_text has given up,
\* and of ValueError / JSONDecodeError; str(e) may be empty.
ExcMsgs == {<<>>, <<"timed out">>, <<"HTTP Error 404">>}

VALUE_ERROR == <<"day is out of range for month">>
JSON_ERROR  == <<"Expecting value">>

\* The detail URLs and images of the pages read.
Urls == {<<"u1">>, <<"u2">>}

T0930  == <<"9", ":", "3", "0">>
T1830  == <<"1", "8", ":", "3", "0">>
T1900  == <<"1", "9", ":", "0", "0">>
T2500  == <<"2", "5", ":", "0", "0">>
T2100E == <<"shuen", " ", "2", "1", ":", "0", "0", " ", "yotei">>

\* One repeating unit of a listing page, as the adapter's patterns cut it out.
\*   dk        how the unit's date relates to the target date
\*   complete  whether the sub-patterns the adapter requires are all there
\*   url       the detail link; title, venue, img: listing fields (None: absent)
\*   otext, ttext, etext  the open / start / end time cells (None: absent);
\*             where the source has one time block, ttext is that block
\*   rows      the (open, start) rows of a zepp unit
Block(dk, complete, url, title, venue, img, otext, ttext, etext, rows) ==
    [dk |-> dk, complete |-> complete, url |-> url, title |-> title,
     venue |-> venue, img |-> img, otext |-> otext, ttext |-> ttext,
     etext |-> etext, rows |-> rows]

\* The listing units the adapters are run on.
Blocks ==
    { Block("target", TRUE, <<"u1">>, <<"a">>, <<"c">>, <<"i1">>, T1830,
            T1830 \o <<"kaijo", " ">> \o T1900 \o <<"kaien">>, T2100E,
            <<[open |-> T1830, start |-> T1900]>>),
      Block("target", TRUE, <<"u2">>, <<"b">>, None, None, None, T0930, None, <<>>),
      Block("target", TRUE, <<"u1">>, <<>>, <<>>, None, None,
            <<"kaien", " ">> \o T2500, None,
            <<[open |-> T0930, start |-> T1900], [open |-> T1830, start |-> T2500]>>),
      Block("target", FALSE, <<"u2">>, <<"a">>, None, None, None, None, None, <<>>),
      Block("other", TRUE, <<"u2">>, <<"b">>, <<"c">>, <<"i1">>, None, T1900, None, <<>>),
      Block("invalid", TRUE, <<"u1">>, <<"a">>, None, None, None, None, None, <<>>) }

\* A detail page: the outcome of its fetch and the fields its patterns find
\* (None: pattern absent).  wtext is the text window musicfun falls back to.
DetailPage(ok, msg, title, venue, ttext, wtext, img, links) ==
    [ok |-> ok, msg |-> msg, title |-> title, venue |-> venue, ttext |-> ttext,
     wtext |-> wtext, img |-> img, links |-> links]

\* The detail pages the adapters are run on.
DetailPages ==
    { DetailPage(FALSE, <<"timed out">>, None, None, None, None, None, <<>>),
      DetailPage(FALSE, <<>>, None, None, None, None, None, <<>>),
      DetailPage(TRUE, <<>>, <<"b">>, <<"c">>,
                 T1830 \o <<"kaijo", " ">> \o T1900 \o <<"kaien", "nl">> \o T2100E,
                 None, <<"i2">>, <<<<"l1">>>>),
      DetailPage(TRUE, <<>>, None, None, None, <<"kaien", " ">> \o T0930, None, <<>>),
      DetailPage(TRUE, <<>>, <<>>, <<>>, T0930 \o <<" ", "kaien">>, None, None, <<>>),
      DetailPage(TRUE, <<>>, <<"a">>, <<"c">>,
                 <<"kaijo", " ">> \o T1830 \o <<" ", "kaien", " ">> \o T0930,
                 None, <<"i2">>, <<>>) }

\* What one adapter run reads.
\*   listing         the outcome of the listing fetch
\*   no_performance  kitara: the page says there is no performance this month
\*   json_ok         wess, axes: the body is JSON
\*   month_ok        axes: the JSON is for the target month and holds a list
\*   pdf_link        makomanai: the page links the month's PDF
World(listing, no_performance, json_ok, month_ok, pdf_link, blocks, details) ==
    [listing |-> listing, no_performance |-> no_performance, json_ok |-> json_ok,
     month_ok |-> month_ok, pdf_link |-> pdf_link, blocks |-> blocks,
     details |-> details]

\* The outcome of a listing fetch.
FetchOk == [ok |-> TRUE, msg |-> <<>>]

FetchFailed(msg) == [ok |-> FALSE, msg |-> msg]

\* An adapter (or a helper that can raise) returned r / raised with str(e) = m.
Returned(r) == [raised |-> FALSE, msg |-> <<>>, value |-> r]

Raised(m) == [raised |-> TRUE, msg |-> m, value |-> <<>>]

-----------------------------------------------------------------------------
(* The adapters.  Each takes the target date, the label and what it reads, *)
(* and returns Returned(SiteResult) or Raised(str(e)).                     *)

\* The flyer_missing text that goes with a flyer image.
FlyerMissing(flyer) == IF Falsy(flyer) THEN NO_FLYER ELSE <<>>

\* The time fields an adapter fills from extract_times' answer tt.
WithTimes(event, tt) ==
    [event EXCEPT
        !.open_time = OrElse(tt.open, NOT_SPECIFIED),
        !.start_time = OrElse(tt.start, NOT_SPECIFIED),
        !.end_time = OrElse(tt.end, NOT_SPECIFIED),
        !.end_estimated = tt.end_estimated /\ ~Falsy(tt.end)]

\* parse_kitara_detail: Raised when its fetch_text raises.
parse_kitara_detail(page, detail_url, fallback_title) ==
    IF ~page.ok THEN Raised(page.msg)
    ELSE LET title == IF page.title # None THEN strip_tags(page.title) ELSE fallback_title
             venue == IF page.venue # None THEN strip_tags(page.venue) ELSE NOT_SPECIFIED
             flyer_img == IF page.img # None THEN page.img ELSE <<>>
         IN  Returned(WithTimes(
                 [EventItem(<<"Kitara">>, title, <<>>, venue) EXCEPT
                     !.url = detail_url,
                     !.flyer_image = flyer_img,
                     !.flyer_missing = FlyerMissing(flyer_img),
                     !.links = page.links],
                 extract_times(IF page.ttext = None THEN <<>> ELSE page.ttext)))

\* A variant of the card fallbacks that takes the thumbnail and leaves
\* flyer_missing as the detail page set it.
KitaraFallbacksKeepMissing(event, card, date_obj) ==
    LET e1 == [event EXCEPT !.date_iso = isoformat(date_obj)]
        e2 == IF e1.venue = NOT_SPECIFIED /\ card.venue # None
              THEN [e1 EXCEPT !.venue = strip_tags(card.venue)] ELSE e1
    IN  IF Falsy(e2.flyer_image) /\ card.img # None
        THEN [e2 EXCEPT !.flyer_image = card.img]
        ELSE e2

\* A variant of the card fallbacks that leaves date_iso as the detail page
\* set it.
KitaraFallbacksWithoutDate(event, card, date_obj) ==
    LET e2 == IF event.venue = NOT_SPECIFIED /\ card.venue # None
              THEN [event EXCEPT !.venue = strip_tags(card.venue)] ELSE event
    IN  IF Falsy(e2.flyer_image) /\ card.img # None
        THEN [e2 EXCEPT !.flyer_image = card.img, !.flyer_missing = <<>>]
        ELSE e2

\* The card fallbacks of scrape_kitara applied to the event of the detail page.
KitaraFallbacks(event, card, date_obj) ==
    LET e1 == [event EXCEPT !.date_iso = isoformat(date_obj)]
        e2 == IF e1.venue = NOT_SPECIFIED /\ card.venue # None
              THEN [e1 EXCEPT !.venue = strip_tags(card.venue)] ELSE e1
    IN  IF Falsy(e2.flyer_image) /\ card.img # None
        THEN [e2 EXCEPT !.flyer_image = card.img, !.flyer_missing = <<>>]
        ELSE e2

RECURSIVE KitaraCards(_, _, _, _)
RECURSIVE KitaraCard(_, _, _, _, _)
\* The loop of scrape_kitara over the cards: the events, or Raised as soon as
\* one detail fetch raises.
KitaraCards(cards, date_obj, details, events) ==
    IF cards = <<>> THEN Returned(events)
    ELSE IF Head(cards).dk # "target" \/ ~Head(cards).complete
    THEN KitaraCards(Tail(cards), date_obj, details, events)
    ELSE KitaraCard(parse_kitara_detail(details[Head(cards).url], Head(cards).url,
                                        strip_tags(Head(cards).title)),
                    cards, date_obj, details, events)

\* The rest of one round of that loop, d being what parse_kitara_detail gave.
KitaraCard(d, cards, date_obj, details, events) ==
    IF d.raised THEN Raised(d.msg)
    ELSE KitaraCards(Tail(cards), date_obj, details,
                     Append(events, KitaraFallbacks(d.value, Head(cards), date_obj)))

\* A variant of the end of an adapter that leaves the note unset.
ResultWithoutNote(key, label, date_obj, events) ==
    Returned(SiteResult(key, label, date_obj, events, <<>>))

\* The end of most adapters: the result, with the "no matching events" note
\* when there is no event.
ResultOrNoMatch(key, label, date_obj, events) ==
    Returned(SiteResult(key, label, date_obj, events,
                        IF events = <<>> THEN NO_MATCH ELSE <<>>))

\* The end of an adapter whose loop r may have raised.
ResultUnlessRaised(key, label, date_obj, r) ==
    IF r.raised THEN r ELSE ResultOrNoMatch(key, label, date_obj, r.value)

scrape_kitara(date_obj, label, world) ==
    IF ~world.listing.ok THEN Raised(world.listing.msg)
    ELSE IF world.no_performance
    THEN Returned(SiteResult("kitara", label, date_obj, <<>>, NO_MATCH))
    ELSE ResultUnlessRaised("kitara", label, date_obj,
                            KitaraCards(world.blocks, date_obj, world.details, <<>>))

\* parse_community_plaza_detail: Raised when its fetch_text raises.
parse_community_plaza_detail(page, detail_url, target_date, label) ==
    IF ~page.ok THEN Raised(page.msg)
    ELSE LET title == IF page.title # None THEN strip_tags(page.title) ELSE UNKNOWN_TITLE
             venue == OrElse(first_line(strip_tags(page.venue)), NOT_SPECIFIED)
             flyer_image == IF page.img # None THEN page.img ELSE <<>>
         IN  Returned(WithTimes(
                 [EventItem(label, title, isoformat(target_date), venue) EXCEPT
                     !.url = detail_url,
                     !.flyer_image = flyer_image,
                     !.flyer_missing = FlyerMissing(flyer_image),
                     !.links = page.links],
                 extract_times(IF page.ttext = None THEN <<>> ELSE page.ttext)))

\* The note scrape_sapporo_community_plaza sets when a detail page fails.
PlazaPartialNote(msg) == PARTIAL_PREFIX \o msg

\* One round of the loop of scrape_sapporo_community_plaza on a unit that is
\* for the target date and not seen yet: d is what the detail parse gave.
PlazaItem(d, url, acc) ==
    IF d.raised
    THEN [acc EXCEPT !.seen = acc.seen \cup {url}, !.note = PlazaPartialNote(d.msg)]
    ELSE [acc EXCEPT !.seen = acc.seen \cup {url}, !.events = Append(acc.events, d.value)]

RECURSIVE PlazaItems(_, _, _, _, _)
\* The loop of scrape_sapporo_community_plaza; acc holds seen, events, note.
PlazaItems(items, date_obj, label, details, acc) ==
    IF items = <<>> THEN acc
    ELSE IF Head(items).dk # "target" \/ Head(items).url \in acc.seen
    THEN PlazaItems(Tail(items), date_obj, label, details, acc)
    ELSE PlazaItems(Tail(items), date_obj, label, details,
             PlazaItem(parse_community_plaza_detail(details[Head(items).url],
                                                    Head(items).url, date_obj, label),
                       Head(items).url, acc))

\* The end of scrape_sapporo_community_plaza.
PlazaResult(label, date_obj, acc) ==
    Returned(SiteResult("sapporo_community_plaza", label, date_obj, acc.events,
                        IF acc.events = <<>> /\ acc.note = <<>> THEN NO_MATCH ELSE acc.note))

scrape_sapporo_community_plaza(date_obj, label, world) ==
    IF ~world.listing.ok THEN Raised(world.listing.msg)
    ELSE PlazaResult(label, date_obj,
             PlazaItems(world.blocks, date_obj, label, world.details,
                        [seen |-> {}, events |-> <<>>, note |-> <<>>]))

\* The fallback of scrape_sapporo_shiminhall when extract_time gave t for a
\* cell with text: the plain search of a time.
ShiminhallFallback(t, text) ==
    IF ~Falsy(t) THEN t
    ELSE IF SearchTime(text).ok THEN TimeText(SearchTime(text)) ELSE None

\* The time of one cell of a sapporo_shiminhall row (None: no such cell):
\* extract_time with the empty label; the token is not normalised.
ShiminhallTime(cell) ==
    IF cell = None THEN extract_time(<<>>, <<>>)
    ELSE ShiminhallFallback(extract_time(strip_tags(cell), <<>>), strip_tags(cell))

\* The event scrape_sapporo_shiminhall makes of one row.
ShiminhallEvent(row, date_obj, label) ==
    [EventItem(label, strip_tags(row.title), isoformat(date_obj), <<"kanamoto-hall">>) EXCEPT
        !.open_time = OrElse(ShiminhallTime(row.otext), NOT_SPECIFIED),
        !.start_time = OrElse(ShiminhallTime(row.ttext), NOT_SPECIFIED),
        !.url = row.url,
        !.flyer_missing = NO_FLYER,
        !.links = IF row.img # None THEN <<row.img>> ELSE <<>>]

RECURSIVE ShiminhallRows(_, _, _)
ShiminhallRows(rows, date_obj, label) ==
    IF rows = <<>> THEN <<>>
    ELSE IF Head(rows).dk # "target" \/ ~Head(rows).complete
    THEN ShiminhallRows(Tail(rows), date_obj, label)
    ELSE <<ShiminhallEvent(Head(rows), date_obj, label)>>
         \o ShiminhallRows(Tail(rows), date_obj, label)

scrape_sapporo_shiminhall(date_obj, label, world) ==
    IF ~world.listing.ok THEN Raised(world.listing.msg)
    ELSE ResultOrNoMatch("sapporo_shiminhall", label, date_obj,
                         ShiminhallRows(world.blocks, date_obj, label))

\* normalize_hhmm(extract_time(text, label)) or ""
TimeOrEmpty(text, label) == OrElse(normalize_hhmm(extract_time(text, label)), <<>>)

\* The end of parse_musicfun_detail: open1 and start1 are the times of the
\* row of the target date; without a start time the text window is read.
MusicfunDetail(page, open1, start1) ==
    [flyer_image |-> IF page.img # None THEN page.img ELSE <<>>,
     open_time |-> IF start1 = <<>> /\ page.wtext # None
                   THEN OrElse(open1, TimeOrEmpty(page.wtext, <<"kaijo">>))
                   ELSE open1,
     start_time |-> IF start1 = <<>> /\ page.wtext # None
                    THEN TimeOrEmpty(page.wtext, <<"kaien">>)
                    ELSE start1,
     end_time |-> <<>>, venue |-> <<>>]

\* parse_musicfun_detail: Raised when its fetch_text raises.
parse_musicfun_detail(page) ==
    IF ~page.ok THEN Raised(page.msg)
    ELSE IF page.ttext = None THEN Returned(MusicfunDetail(page, <<>>, <<>>))
    ELSE Returned(MusicfunDetail(page,
                      TimeOrEmpty(strip_tags(page.ttext), <<"kaijo">>),
                      TimeOrEmpty(strip_tags(page.ttext), <<"kaien">>)))

\* The record scrape_musicfun / scrape_mountalive cache when a detail fails.
EmptyDetail ==
    [flyer_image |-> <<>>, open_time |-> <<>>, start_time |-> <<>>,
     end_time |-> <<>>, venue |-> <<>>]

\* The cache step of scrape_musicfun / scrape_mountalive: parsed is the
\* outcome of the detail parse of url, used only when url is not cached.
CacheDetail(cache, url, parsed) ==
    IF url \in DOMAIN cache THEN cache
    ELSE (url :> (IF parsed.raised THEN EmptyDetail ELSE parsed.value)) @@ cache

\* The event scrape_musicfun makes of one listing item and its detail d.
MusicfunEvent(it, d, date_obj, label) ==
    LET flyer == OrElse(d.flyer_image, it.img)
    IN  [EventItem(label, OrElse(strip_tags(it.title), UNKNOWN_TITLE), isoformat(date_obj),
                   OrElse(first_line(strip_tags(it.venue)), NOT_SPECIFIED)) EXCEPT
            !.open_time = OrElse(d.open_time, NOT_SPECIFIED),
            !.start_time = OrElse(d.start_time, NOT_SPECIFIED),
            !.end_time = OrElse(d.end_time, NOT_SPECIFIED),
            !.url = it.url,
            !.flyer_image = flyer,
            !.flyer_missing = FlyerMissing(flyer)]

\* A variant of the round that does not keep what it cached.
CachedRoundForgetful(acc, cache, url, event) ==
    [cache |-> acc.cache,
     fetched |-> IF url \in DOMAIN acc.cache THEN acc.fetched ELSE Append(acc.fetched, url),
     events |-> Append(acc.events, event)]

\* One round of the loop of scrape_musicfun / scrape_mountalive once the
\* cache holds the unit's detail: event is the unit's event.
CachedRound(acc, cache, url, event) ==
    [cache |-> cache,
     fetched |-> IF url \in DOMAIN acc.cache THEN acc.fetched ELSE Append(acc.fetched, url),
     events |-> Append(acc.events, event)]

\* One round of the loop of scrape_musicfun on a unit for the target date.
MusicfunItem(it, cache, date_obj, label, acc) ==
    CachedRound(acc, cache, it.url, MusicfunEvent(it, cache[it.url], date_obj, label))

RECURSIVE MusicfunItems(_, _, _, _, _)
\* The loop of scrape_musicfun; acc holds detail_cache, events and the
\* detail URLs fetched so far.
MusicfunItems(items, date_obj, label, details, acc) ==
    IF items = <<>> THEN acc
    ELSE IF Head(items).dk # "target" \/ ~Head(items).complete \/ Head(items).img = None
    THEN MusicfunItems(Tail(items), date_obj, label, details, acc)
    ELSE MusicfunItems(Tail(items), date_obj, label, details,
             MusicfunItem(Head(items),
                          CacheDetail(acc.cache, Head(items).url,
                                      parse_musicfun_detail(details[Head(items).url])),
                          date_obj, label, acc))

\* A loop state with nothing cached and no event.
EmptyAcc == [cache |-> <<>>, fetched |-> <<>>, events |-> <<>>]

scrape_musicfun(date_obj, label, world) ==
    IF ~world.listing.ok THEN Raised(world.listing.msg)
    ELSE ResultOrNoMatch("musicfun", label, date_obj,
            MusicfunItems(world.blocks, date_obj, label, world.details, EmptyAcc).events)

\* The OPEN / START times of a mount alive detail page: the pattern needs
\* "OPEN / time" and, after it, "START / time".
MountaliveTimes(text) ==
    LET O == {i \in 1..Len(text) :
                 text[i] = "kaijo" /\ TimeAt(text, SkipSpace(text, i + 1)).ok}
        o == TimeAt(text, SkipSpace(text, Min(O) + 1))
        S == {i \in 1..Len(text) :
                 /\ O # {} /\ i > o.last
                 /\ text[i] = "kaien" /\ TimeAt(text, SkipSpace(text, i + 1)).ok}
    IN  IF O = {} \/ S = {} THEN [ok |-> FALSE, open |-> <<>>, start |-> <<>>]
        ELSE [ok |-> TRUE, open |-> TimeText(o),
              start |-> TimeText(TimeAt(text, SkipSpace(text, Min(S) + 1)))]

\* The end of parse_mountalive_detail, tm being the times found.
MountaliveDetail(page, tm) ==
    [flyer_image |-> IF page.img # None THEN page.img ELSE <<>>,
     open_time |-> IF tm.ok THEN OrElse(normalize_hhmm(tm.open), <<>>) ELSE <<>>,
     start_time |-> IF tm.ok THEN OrElse(normalize_hhmm(tm.start), <<>>) ELSE <<>>,
     end_time |-> <<>>,
     venue |-> IF page.venue # None THEN strip_tags(page.venue) ELSE <<>>]

\* parse_mountalive_detail: Raised when its fetch_text raises.
parse_mountalive_detail(page) ==
    IF ~page.ok THEN Raised(page.msg)
    ELSE Returned(MountaliveDetail(page,
             MountaliveTimes(IF page.ttext = None THEN <<>> ELSE page.ttext)))

\* The event scrape_mountalive makes of one feed item and its detail dd.
\* The venue pattern 会場：(.+) reads the tag-stripped description, whose
\* lines have no blank ends: it finds nothing when no text follows the label.
MountaliveEvent(it, dd, date_obj, label) ==
    LET venue == OrElse(dd.venue,
                        IF ~Falsy(Strip(OrElse(it.venue, <<>>))) THEN Strip(it.venue)
                        ELSE NOT_SPECIFIED)
        flyer == OrElse(dd.flyer_image, IF it.img # None THEN it.img ELSE <<>>)
    IN  [EventItem(label, OrElse(strip_tags(it.title), UNKNOWN_TITLE), isoformat(date_obj),
                   venue) EXCEPT
            !.open_time = OrElse(dd.open_time, NOT_SPECIFIED),
            !.start_time = OrElse(dd.start_time, NOT_SPECIFIED),
            !.url = it.url,
            !.flyer_image = flyer,
            !.flyer_missing = FlyerMissing(flyer)]

\* One round of the loop of scrape_mountalive on an item for the target date.
MountaliveItem(it, cache, date_obj, label, acc) ==
    CachedRound(acc, cache, it.url, MountaliveEvent(it, cache[it.url], date_obj, label))

RECURSIVE MountaliveItems(_, _, _, _, _)
\* The loop of scrape_mountalive: Returned(acc), or Raised when an item's
\* date is no calendar date (dt.date raises ValueError).
MountaliveItems(items, date_obj, label, details, acc) ==
    IF items = <<>> THEN Returned(acc)
    ELSE IF ~Head(items).complete
    THEN MountaliveItems(Tail(items), date_obj, label, details, acc)
    ELSE IF Head(items).dk = "invalid" THEN Raised(VALUE_ERROR)
    ELSE IF Head(items).dk # "target"
    THEN MountaliveItems(Tail(items), date_obj, label, details, acc)
    ELSE MountaliveItems(Tail(items), date_obj, label, details,
             MountaliveItem(Head(items),
                            CacheDetail(acc.cache, Head(items).url,
                                        parse_mountalive_detail(details[Head(items).url])),
                            date_obj, label, acc))

\* The end of scrape_mountalive, r being what the loop gave.
MountaliveResult(label, date_obj, r) ==
    IF r.raised THEN r ELSE ResultOrNoMatch("mountalive", label, date_obj, r.value.events)

scrape_mountalive(date_obj, label, world) ==
    IF ~world.listing.ok THEN Raised(world.listing.msg)
    ELSE MountaliveResult(label, date_obj,
             MountaliveItems(world.blocks, date_obj, label, world.details, EmptyAcc))

\* The units of a listing that are for the target date; the adapters whose
\* loop needs nothing else of a unit make one event of each.
TargetUnits(units) == SelectSeq(units, LAMBDA u : u.dk = "target")

\* str(x or "") of a JSON field that may be missing.
StrOrEmpty(x) == IF x = None THEN <<>> ELSE x

\* The event scrape_wess makes of one post.
WessEvent(post, date_obj, label) ==
    LET flyer == StrOrEmpty(post.img)
    IN  [EventItem(label, OrElse(collapse_ws(StrOrEmpty(post.title)), UNKNOWN_TITLE),
                   isoformat(date_obj),
                   OrElse(collapse_ws(StrOrEmpty(post.venue)), NOT_SPECIFIED)) EXCEPT
            !.open_time = OrElse(normalize_hhmm(StrOrEmpty(post.otext)), NOT_SPECIFIED),
            !.start_time = OrElse(normalize_hhmm(StrOrEmpty(post.ttext)), NOT_SPECIFIED),
            !.url = post.url,
            !.flyer_image = flyer,
            !.flyer_missing = FlyerMissing(flyer)]

scrape_wess(date_obj, label, world) ==
    IF ~world.listing.ok THEN Raised(world.listing.msg)
    ELSE IF ~world.json_ok THEN Raised(JSON_ERROR)
    ELSE ResultOrNoMatch("wess", label, date_obj,
             [i \in 1..Len(TargetUnits(world.blocks)) |->
                 WessEvent(TargetUnits(world.blocks)[i], date_obj, label)])

\* The event scrape_kyobun makes of one dt/dd pair.
KyobunEvent(unit, date_obj, label) ==
    WithTimes(
        [EventItem(label, OrElse(strip_tags(unit.title), UNKNOWN_TITLE), isoformat(date_obj),
                   IF unit.venue # None THEN strip_tags(unit.venue) ELSE NOT_SPECIFIED) EXCEPT
            !.url = unit.url,
            !.flyer_image = StrOrEmpty(unit.img),
            !.flyer_missing = FlyerMissing(StrOrEmpty(unit.img))],
        extract_times(StrOrEmpty(unit.ttext)))

scrape_kyobun(date_obj, label, world) ==
    IF ~world.listing.ok THEN Raised(world.listing.msg)
    ELSE ResultOrNoMatch("kyobun", label, date_obj,
             [i \in 1..Len(TargetUnits(world.blocks)) |->
                 KyobunEvent(TargetUnits(world.blocks)[i], date_obj, label)])

\* The time scrape_sapporo_dome reads from one dd cell ("" when there is none).
DomeTime(cell) ==
    IF cell = None THEN <<>> ELSE OrElse(extract_any_hhmm(strip_tags(cell)), <<>>)

\* The event scrape_sapporo_dome makes of one list item.
DomeEvent(unit, date_obj, label) ==
    [EventItem(label, OrElse(strip_tags(unit.title), UNKNOWN_TITLE), isoformat(date_obj),
               <<"sapporo-dome">>) EXCEPT
        !.open_time = OrElse(DomeTime(unit.otext), NOT_SPECIFIED),
        !.start_time = OrElse(DomeTime(unit.ttext), NOT_SPECIFIED),
        !.end_time = OrElse(DomeTime(unit.etext), NOT_SPECIFIED),
        !.url = unit.url,
        !.flyer_image = StrOrEmpty(unit.img),
        !.flyer_missing = IF unit.img = None THEN NO_FLYER ELSE <<>>]

scrape_sapporo_dome(date_obj, label, world) ==
    IF ~world.listing.ok THEN Raised(world.listing.msg)
    ELSE ResultOrNoMatch("sapporo_dome", label, date_obj,
             [i \in 1..Len(TargetUnits(world.blocks)) |->
                 DomeEvent(TargetUnits(world.blocks)[i], date_obj, label)])

\* The event scrape_sora_scc makes of one list item.
SoraEvent(unit, date_obj, label) ==
    [EventItem(label, IF unit.title # None THEN strip_tags(unit.title) ELSE UNKNOWN_TITLE,
               isoformat(date_obj), <<"sapporo-convention-center">>) EXCEPT
        !.url = <<"sora-scc">>,
        !.flyer_missing = NO_FLYER,
        !.links = IF Falsy(strip_tags(unit.venue)) THEN <<>> ELSE <<strip_tags(unit.venue)>>]

scrape_sora_scc(date_obj, label, world) ==
    IF ~world.listing.ok THEN Raised(world.listing.msg)
    ELSE ResultOrNoMatch("sora_scc", label, date_obj,
             [i \in 1..Len(TargetUnits(world.blocks)) |->
                 SoraEvent(TargetUnits(world.blocks)[i], date_obj, label)])

\* The event scrape_axes makes of one entry of the JSON.
AxesEvent(ev, date_obj, label) ==
    [EventItem(label, collapse_ws(OrElse(StrOrEmpty(ev.title), <<"saijimei-fumei">>)),
               isoformat(date_obj), <<"axes-sapporo">>) EXCEPT
        !.url = <<"axes">>,
        !.flyer_missing = NO_FLYER]

\* The end of scrape_axes.
AxesResult(label, date_obj, events) ==
    Returned(SiteResult("axes", label, date_obj, events,
                        IF events = <<>> THEN AXES_NOTE ELSE <<>>))

scrape_axes(date_obj, label, world) ==
    IF ~world.listing.ok
    THEN Returned(SiteResult("axes", label, date_obj, <<>>,
                             AXES_FAILED_PREFIX \o world.listing.msg))
    ELSE IF ~world.json_ok
    THEN Returned(SiteResult("axes", label, date_obj, <<>>,
                             AXES_FAILED_PREFIX \o JSON_ERROR))
    ELSE AxesResult(label, date_obj,
             IF world.month_ok
             THEN [i \in 1..Len(TargetUnits(world.blocks)) |->
                      AxesEvent(TargetUnits(world.blocks)[i], date_obj, label)]
             ELSE <<>>)

\* str(n) for 1 <= n <= 12.
MonthStr(n) == IF n < 10 THEN <<DigitChar(n)>> ELSE Fmt02(n)

scrape_makomanai_icearena(date_obj, label, world) ==
    IF ~world.listing.ok THEN Raised(world.listing.msg)
    ELSE LET pdf_url == IF world.pdf_link THEN <<"pdf">> ELSE <<"icearena">>
         IN  Returned(SiteResult("makomanai_icearena", label, date_obj,
               << [EventItem(label, MonthStr(date_obj.m) \o <<"gatsu-event-hyou">>,
                             isoformat(date_obj), <<"makomanai-icearena">>) EXCEPT
                      !.url = pdf_url,
                      !.flyer_missing = ICEARENA_FLYER,
                      !.links = IF world.pdf_link THEN <<pdf_url>> ELSE <<>>] >>,
               ICEARENA_NOTE))

\* The title suffix of the n-th of several time slots: (n bu).
SlotSuffix(n) == <<CharOrder[Code("(1bu)") + n - 1]>>

\* The events scrape_zepp_sapporo makes of one schedule block.
ZeppEvents(block, date_obj, label) ==
    LET base_title == OrElse(strip_tags(block.title), UNKNOWN_TITLE)
        base == [EventItem(label, base_title, isoformat(date_obj), <<"Zepp Sapporo">>) EXCEPT
                    !.url = block.url,
                    !.flyer_image = StrOrEmpty(block.img),
                    !.flyer_missing = IF block.img = None THEN NO_FLYER ELSE <<>>]
    IN  IF block.rows = <<>> THEN <<base>>
        ELSE [i \in 1..Len(block.rows) |->
                [base EXCEPT
                    !.title = IF Len(block.rows) = 1 THEN base_title
                              ELSE base_title \o SlotSuffix(i),
                    !.open_time = OrElse(normalize_hhmm(block.rows[i].open), NOT_SPECIFIED),
                    !.start_time = OrElse(normalize_hhmm(block.rows[i].start), NOT_SPECIFIED)]]

RECURSIVE ZeppBlocks(_, _, _)
ZeppBlocks(blocks, date_obj, label) ==
    IF blocks = <<>> THEN <<>>
    ELSE IF ~Head(blocks).complete \/ Head(blocks).dk # "target"
    THEN ZeppBlocks(Tail(blocks), date_obj, label)
    ELSE ZeppEvents(Head(blocks), date_obj, label) \o ZeppBlocks(Tail(blocks), date_obj, label)

scrape_zepp_sapporo(date_obj, label, world) ==
    IF ~world.listing.ok THEN Raised(world.listing.msg)
    ELSE ResultOrNoMatch("zepp_sapporo", label, date_obj,
                         ZeppBlocks(world.blocks, date_obj, label))

\* The source types of the configuration: the twelve adapters and one type
\* run_scraper does not know.
SourceTypes ==
    {"kitara", "sapporo_community_plaza", "sapporo_shiminhall", "musicfun",
     "mountalive", "wess", "kyobun", "sapporo_dome", "sora_scc", "axes",
     "makomanai_icearena", "zepp_sapporo", "other_type"}

\* label = source_conf.get("label") or stype or "source"
ScraperLabel(source_conf) == OrElse(source_conf.label, <<source_conf.type>>)

run_scraper(source_conf, date_obj, world) ==
    LET stype == source_conf.type
        label == ScraperLabel(source_conf)
    IN  CASE stype = "kitara" -> scrape_kitara(date_obj, label, world)
          [] stype = "sapporo_community_plaza" ->
                 scrape_sapporo_community_plaza(date_obj, label, world)
          [] stype = "sapporo_shiminhall" -> scrape_sapporo_shiminhall(date_obj, label, world)
          [] stype = "musicfun" -> scrape_musicfun(date_obj, label, world)
          [] stype = "mountalive" -> scrape_mountalive(date_obj, label, world)
          [] stype = "wess" -> scrape_wess(date_obj, label, world)
          [] stype = "kyobun" -> scrape_kyobun(date_obj, label, world)
          [] stype = "sapporo_dome" -> scrape_sapporo_dome(date_obj, label, world)
          [] stype = "sora_scc" -> scrape_sora_scc(date_obj, label, world)
          [] stype = "axes" -> scrape_axes(date_obj, label, world)
          [] stype = "makomanai_icearena" ->
                 scrape_makomanai_icearena(date_obj, label, world)
          [] stype = "zepp_sapporo" -> scrape_zepp_sapporo(date_obj, label, world)
          [] OTHER -> Returned(SiteResult(stype, label, date_obj, <<>>, UNSUPPORTED))

\* Whether the loop of adapter key takes unit b as an event of the target
\* date: the date matches and the sub-patterns the loop requires are there.
AcceptedBy(key, b) ==
    CASE key \in {"kitara", "sapporo_shiminhall", "mountalive", "zepp_sapporo"} ->
             b.dk = "target" /\ b.complete
      [] key = "musicfun" -> b.dk = "target" /\ b.complete /\ b.img # None
      [] OTHER -> b.dk = "target"

\* The number of listing units adapter key matches for the target date in
\* what it reads; sapporo_community_plaza counts a detail link once, and
\* makomanai_icearena matches no unit by date.
MatchedCount(key, world) ==
    IF key = "kitara" /\ world.no_performance THEN 0
    ELSE IF key \in {"wess", "axes"} /\ ~world.json_ok THEN 0
    ELSE IF key = "axes" /\ ~world.month_ok THEN 0
    ELSE IF key = "makomanai_icearena" THEN 0
    ELSE IF key = "sapporo_community_plaza"
    THEN Cardinality({world.blocks[i].url :
                         i \in {j \in 1..Len(world.blocks) : world.blocks[j].dk = "target"}})
    ELSE Len(SelectSeq(world.blocks, LAMBDA b : AcceptedBy(key, b)))

\* Whether the detail fetch of a unit adapter key matches fails.
DetailFailed(key, world) ==
    /\ MatchedCount(key, world) > 0
    /\ \E i \in 1..Len(world.blocks) :
          /\ AcceptedBy(key, world.blocks[i])
          /\ ~world.details[world.blocks[i].url].ok

\* Whether the feed holds an item whose date numerals are no calendar date.
InvalidDateItem(world) ==
    \E i \in 1..Len(world.blocks) :
        world.blocks[i].complete /\ world.blocks[i].dk = "invalid"

-----------------------------------------------------------------------------
(* The idle values of the four parts of the state                          *)

NoOutcome == [ok |-> FALSE, msg |-> <<"none">>]

FetchIdle ==
    /\ f_pc = "idle" /\ f_fn = "none" /\ f_timeout = 0
    /\ f_reqs = <<>> /\ f_first = NoOutcome /\ f_out = NoOutcome

SortIdle == s_pc = "idle" /\ s_in = <<>> /\ s_out = <<>>

ScrapeIdle == a_pc = "idle" /\ a_key = "none" /\ a_world = <<>> /\ a_out = <<>>

MainIdle ==
    /\ pc = "idle" /\ args = <<>> /\ sources = <<>> /\ template = <<>> /\ idx = 0
    /\ results = <<>> /\ outcomes = <<>> /\ rendered = <<>> /\ exit_code = -1

RenderIdle == r_pc = "idle" /\ r_tpl = <<>> /\ r_results = <<>> /\ r_out = <<>>

TimeIdle == n_pc = "idle" /\ n_in = <<>> /\ n_out = <<>>

-----------------------------------------------------------------------------
(* fetch_text / fetch_bytes: one call, one action per urlopen              *)

\* str(e) as a list of the phrases it holds.
FetchMsgs ==
    {<<>>, <<"CERTIFICATE_VERIFY_FAILED">>, <<"timed out">>, <<"TIMED OUT">>,
     <<"HTTP Error 404">>, <<"CERTIFICATE_VERIFY_FAILED", "timed out">>}

\* What one urlopen (with the read and the decode) can end in.
NetOutcomes == {FetchOk} \cup {FetchFailed(m) : m \in FetchMsgs}

\* The timeout arguments of the calls that are checked (the default is 20).
Timeouts == {10, 20, 40}

\* "CERTIFICATE_VERIFY_FAILED" in msg
IsCertFailure(msg) == \E i \in 1..Len(msg) : msg[i] = "CERTIFICATE_VERIFY_FAILED"

\* "timed out" in msg.lower()
IsTimeout(msg) == \E i \in 1..Len(msg) : msg[i] \in {"timed out", "TIMED OUT"}

Max(a, b) == IF a >= b THEN a ELSE b

\* A variant of the retry deadline that keeps the first deadline.
RetryTimeoutSame(timeout) == timeout

\* The deadline of the retry after a timeout: max(timeout * 2, 30).
RetryTimeout(timeout) == Max(timeout * 2, 30)

\* A request as urlopen gets it.
Request(verify, timeout) == [verify |-> verify, timeout |-> timeout]

\* The end of a urlopen that is the call's last: return the body or raise.
FetchEnd(outcome) ==
    /\ f_pc' = IF outcome.ok THEN "returned" ELSE "raised"
    /\ f_out' = outcome

\* The first urlopen, and the except clause that classifies its failure.
FetchFirst ==
    /\ f_pc = "call"
    /\ f_reqs' = Append(f_reqs, Request(TRUE, f_timeout))
    /\ \E outcome \in NetOutcomes :
          /\ f_first' = outcome
          /\ IF outcome.ok THEN FetchEnd(outcome)
             ELSE IF IsCertFailure(outcome.msg)
             THEN f_pc' = "retry_unverified" /\ f_out' = f_out
             ELSE IF IsTimeout(outcome.msg)
             THEN f_pc' = "retry_timeout" /\ f_out' = f_out
             ELSE FetchEnd(outcome)
    /\ UNCHANGED <<f_fn, f_timeout, sortVars, scrapeVars, mainVars, renderVars, timeVars>>

\* The urlopen after a certificate failure: unverified context, same timeout.
FetchRetryUnverified ==
    /\ f_pc = "retry_unverified"
    /\ f_reqs' = Append(f_reqs, Request(FALSE, f_timeout))
    /\ \E outcome \in NetOutcomes : FetchEnd(outcome)
    /\ UNCHANGED <<f_fn, f_timeout, f_first, sortVars, scrapeVars, mainVars, renderVars, timeVars>>

\* The urlopen after a timeout: verified, longer deadline.
FetchRetryTimeout ==
    /\ f_pc = "retry_timeout"
    /\ f_reqs' = Append(f_reqs, Request(TRUE, RetryTimeout(f_timeout)))
    /\ \E outcome \in NetOutcomes : FetchEnd(outcome)
    /\ UNCHANGED <<f_fn, f_timeout, f_first, sortVars, scrapeVars, mainVars, renderVars, timeVars>>

InitFetch ==
    /\ f_pc = "call"
    /\ f_fn \in {"fetch_text", "fetch_bytes"}
    /\ f_timeout \in Timeouts
    /\ f_reqs = <<>> /\ f_first = NoOutcome /\ f_out = NoOutcome
    /\ SortIdle /\ ScrapeIdle /\ MainIdle /\ RenderIdle /\ TimeIdle

NextFetch == FetchFirst \/ FetchRetryUnverified \/ FetchRetryTimeout

SpecFetch == InitFetch /\ [][NextFetch]_vars

-----------------------------------------------------------------------------
(* sort_events: one call on a drawn list                                   *)

SortCall ==
    /\ s_pc = "call"
    /\ s_out' = sort_events(s_in)
    /\ s_pc' = "sorted"
    /\ UNCHANGED <<s_in, fetchVars, scrapeVars, mainVars, renderVars, timeVars>>

InitSort ==
    /\ s_pc = "call"
    /\ s_in \in SeqUpTo(SortEvents, MaxSortLen)
    /\ s_out = <<>>
    /\ FetchIdle /\ ScrapeIdle /\ MainIdle /\ RenderIdle /\ TimeIdle

NextSort == SortCall

SpecSort == InitSort /\ [][NextSort]_vars

-----------------------------------------------------------------------------
(* One adapter run on a drawn listing and drawn detail pages               *)

\* The longest listing an adapter is run on.
MaxBlocks == 2

AdapterKeys == SourceTypes \ {"other_type"}

\* The adapters that fetch a detail page per matched unit.
DetailAdapters == {"kitara", "sapporo_community_plaza", "musicfun", "mountalive"}

\* The detail pages of a run whose adapter reads none.
NoDetails == [u \in Urls |-> DetailPage(FALSE, <<>>, None, None, None, None, None, <<>>)]

\* The label of the adapter runs.
ScrapeLabel == <<"a">>

\* The target date of the runs.
TargetDate == CHOOSE d \in TargetDates : TRUE

\* The listing fetch of the run fails: the world holds nothing else.
FailedWorlds ==
    {World(FetchFailed(m), FALSE, TRUE, TRUE, TRUE, <<>>, NoDetails) : m \in ExcMsgs}

\* One run of adapter a_key through run_scraper, on a failed listing or on
\* a listing of at most MaxBlocks units with its detail pages.
ScrapeCall ==
    /\ a_pc = "call"
    /\ \/ \E world \in FailedWorlds : a_world' = world
       \/ \E np \in (IF a_key = "kitara" THEN BOOLEAN ELSE {FALSE}),
             js \in (IF a_key \in {"wess", "axes"} THEN BOOLEAN ELSE {TRUE}),
             mo \in (IF a_key = "axes" THEN BOOLEAN ELSE {TRUE}),
             pdf \in (IF a_key = "makomanai_icearena" THEN BOOLEAN ELSE {TRUE}),
             blocks \in SeqUpTo(Blocks, MaxBlocks),
             details \in (IF a_key \in DetailAdapters THEN [Urls -> DetailPages]
                          ELSE {NoDetails}) :
            a_world' = World(FetchOk, np, js, mo, pdf, blocks, details)
    /\ a_out' = run_scraper([type |-> a_key, label |-> ScrapeLabel], TargetDate, a_world')
    /\ a_pc' = "done"
    /\ UNCHANGED <<a_key, fetchVars, sortVars, mainVars, renderVars, timeVars>>

InitScrape ==
    /\ a_pc = "call"
    /\ a_key \in AdapterKeys
    /\ a_world = <<>> /\ a_out = <<>>
    /\ FetchIdle /\ SortIdle /\ MainIdle /\ RenderIdle /\ TimeIdle

NextScrape == ScrapeCall

SpecScrape == InitScrape /\ [][NextScrape]_vars

-----------------------------------------------------------------------------
(* The renderer.  A card is a record of the texts the markup holds.        *)

\* html.escape(c, quote=True) of one character.
EscChar(c) ==
    CASE c = "&" -> <<"&", "a", "m", "p", ";">>
      [] c = "<" -> <<"&", "l", "t", ";">>
      [] c = ">" -> <<"&", "g", "t", ";">>
      [] c = "\"" -> <<"&", "q", "u", "o", "t", ";">>
      [] c = "'" -> <<"&", "#", "x", "2", "7", ";">>
      [] OTHER -> <<c>>

RECURSIVE esc(_)
esc(s) == IF s = <<>> THEN <<>> ELSE EscChar(Head(s)) \o esc(Tail(s))

\* re.fullmatch(r"\d{4}-\d{2}-\d{2}", s or "").
FullMatchDate(s) ==
    /\ s # None /\ Len(s) = 10
    /\ \A i \in {1, 2, 3, 4, 6, 7, 9, 10} : IsDigit(s[i])
    /\ s[5] = "-" /\ s[8] = "-"

\* A variant of the button that does not look at the end time.
GcalButtonWithoutEnd(event) ==
    IF ~(FullMatchDate(event.date_iso) /\ FullMatchHHMM(event.start_time))
    THEN <<>>
    ELSE <<"gcal", esc(event.title), esc(event.date_iso), esc(event.start_time),
           esc(event.end_time), esc(event.venue), esc(event.url)>>

\* render_gcal_button: "" or the anchor with its data attributes.
render_gcal_button(event) ==
    IF ~(/\ FullMatchDate(event.date_iso)
         /\ FullMatchHHMM(event.start_time)
         /\ FullMatchHHMM(event.end_time))
    THEN <<>>
    ELSE <<"gcal", esc(event.title), esc(event.date_iso), esc(event.start_time),
           esc(event.end_time), esc(event.venue), esc(event.url)>>

\* render_links: the calendar button, then one anchor per link.
render_links(event) ==
    (IF render_gcal_button(event) # <<>> THEN <<render_gcal_button(event)>> ELSE <<>>)
    \o (IF event.links = <<>> THEN <<>>
        ELSE [i \in 1..Len(event.links) |-> <<"link", esc(event.links[i])>>])

\* render_flyer: the image, or the text that says why there is none.
render_flyer(event) ==
    IF ~Falsy(event.flyer_image) THEN <<"img", esc(event.flyer_image)>>
    ELSE <<"none", esc(OrElse(event.flyer_missing, NO_FLYER))>>

\* s.replace("-", "/")
RECURSIVE DashToSlash(_)
DashToSlash(s) ==
    IF s = <<>> THEN <<>>
    ELSE <<IF Head(s) = "-" THEN "/" ELSE Head(s)>> \o DashToSlash(Tail(s))

\* （予定）, the qualifier of an estimated end time.
ESTIMATED == <<"(yotei)">>

\* 対象日の掲載イベントは見つかりませんでした, the note of a card without one.
DEFAULT_EMPTY_NOTE == <<"keisai-event-nashi">>

\* 全サイト横断, the label of the placeholder of the global block.
ALL_SITES == <<"zen-site-oudan">>

\* A variant of the card that shows the qualifier whenever the flag is set.
RenderCardAlwaysQualified(event) ==
    LET end_display == IF event.end_estimated
                       THEN event.end_time \o ESTIMATED ELSE event.end_time
    IN  [kind |-> "event",
         flyer |-> render_flyer(event),
         title |-> esc(event.title),
         site |-> esc(event.site),
         date_chip |-> esc(DashToSlash(event.date_iso)),
         venue |-> esc(OrElse(event.venue, NOT_SPECIFIED)),
         open |-> esc(OrElse(event.open_time, NOT_SPECIFIED)),
         start |-> esc(OrElse(event.start_time, NOT_SPECIFIED)),
         end |-> esc(OrElse(end_display, NOT_SPECIFIED)),
         url |-> esc(event.url),
         links |-> render_links(event),
         note |-> <<>>]

render_event_card(event) ==
    LET end_display == IF event.end_time # NOT_SPECIFIED /\ event.end_estimated
                       THEN event.end_time \o ESTIMATED ELSE event.end_time
    IN  [kind |-> "event",
         flyer |-> render_flyer(event),
         title |-> esc(event.title),
         site |-> esc(event.site),
         date_chip |-> esc(DashToSlash(event.date_iso)),
         venue |-> esc(OrElse(event.venue, NOT_SPECIFIED)),
         open |-> esc(OrElse(event.open_time, NOT_SPECIFIED)),
         start |-> esc(OrElse(event.start_time, NOT_SPECIFIED)),
         end |-> esc(OrElse(end_display, NOT_SPECIFIED)),
         url |-> esc(event.url),
         links |-> render_links(event),
         note |-> <<>>]

render_empty_card(label, note, date_obj) ==
    [kind |-> "empty",
     flyer |-> <<"none", NO_MATCH>>,
     title |-> esc(label),
     site |-> esc(label),
     date_chip |-> esc(DashToSlash(isoformat(date_obj))),
     venue |-> <<>>, open |-> <<>>, start |-> <<>>, end |-> <<>>, url |-> <<>>,
     links |-> <<>>,
     note |-> esc(OrElse(note, DEFAULT_EMPTY_NOTE))]

RECURSIVE AllEvents(_)
\* The events of all site results, in the order of the results.
AllEvents(site_results) ==
    IF site_results = <<>> THEN <<>>
    ELSE Head(site_results).events \o AllEvents(Tail(site_results))

\* The cards of a list of events.
EventCards(events) == [i \in 1..Len(events) |-> render_event_card(events[i])]

\* render_site_block: the cards of one source's section.
render_site_block(site) ==
    IF site.events # <<>> THEN EventCards(sort_events(site.events))
    ELSE <<render_empty_card(site.label, site.note, site.date_obj)>>

RECURSIVE RenderPerSite(_, _)
\* A variant of the block that shows one section per source.
RenderPerSite(date_obj, site_results) ==
    IF site_results = <<>> THEN <<>>
    ELSE render_site_block(Head(site_results)) \o RenderPerSite(date_obj, Tail(site_results))

\* render_global_block: the cards of the one section it returns.
render_global_block(date_obj, site_results) ==
    IF AllEvents(site_results) # <<>>
    THEN EventCards(sort_events(AllEvents(site_results)))
    ELSE <<render_empty_card(ALL_SITES, NO_MATCH, date_obj)>>

site_order_key(site) ==
    IF site.events = <<>>
    THEN <<<<"9", "9", ":", "9", "9">>, <<"9", "9", ":", "9", "9">>, site.label>>
    ELSE LET first == sort_events(site.events)[1]
         IN  <<OrElse(first.date_iso, <<"9", "9", "9", "9", "-", "9", "9", "-", "9", "9">>),
               IF FullMatchHHMM(first.start_time) THEN first.start_time
               ELSE <<"9", "9", ":", "9", "9">>,
               site.label>>

RECURSIVE InsertSite(_, _)
InsertSite(site, sorted) ==
    IF sorted = <<>> THEN <<site>>
    ELSE IF KeyLess(site_order_key(site), site_order_key(Head(sorted)))
    THEN <<site>> \o sorted
    ELSE <<Head(sorted)>> \o InsertSite(site, Tail(sorted))

RECURSIVE SortedSites(_, _)
\* sorted(site_results, key=site_order_key)
SortedSites(site_results, acc) ==
    IF site_results = <<>> THEN acc
    ELSE SortedSites(Tail(site_results), InsertSite(Head(site_results), acc))

\* A template is a list of pieces: "text", "DATE_PH" (the date placeholder),
\* "START" and "END" (the two markers).  A document is a list of parts.
Lit(piece) == [kind |-> piece, text |-> <<>>, cards |-> <<>>]

DateStamp(date_obj) == [kind |-> "date", text |-> isoformat(date_obj), cards |-> <<>>]

BlockPart(cards) == [kind |-> "block", text |-> <<>>, cards |-> cards]

\* re.sub of the date placeholder, count=1.
StampDate(doc, date_obj) ==
    LET P == {i \in 1..Len(doc) : doc[i].kind = "DATE_PH"}
    IN  IF P = {} THEN doc ELSE [doc EXCEPT ![Min(P)] = DateStamp(date_obj)]

\* re.sub of the first span from a START to the next END (non-greedy,
\* count=1) by the block; the document is unchanged when there is none.
ReplaceSpan(doc, cards) ==
    LET S == {i \in 1..Len(doc) :
                 doc[i].kind = "START" /\ \E j \in (i + 1)..Len(doc) : doc[j].kind = "END"}
        i == Min(S)
        j == Min({k \in (i + 1)..Len(doc) : doc[k].kind = "END"})
    IN  IF S = {} THEN doc
        ELSE SubSeq(doc, 1, i - 1) \o <<BlockPart(cards)>> \o SubSeq(doc, j + 1, Len(doc))

\* The ASCII letters of the model's alphabet; the name of a source type
\* stands for a string that starts with one.
AsciiLetters ==
    {"a", "b", "c", "D", "n", "axes", "kitara", "kyobun", "makomanai_icearena",
     "mountalive", "musicfun", "other_type", "sapporo_community_plaza",
     "sapporo_dome", "sapporo_shiminhall", "sora_scc", "wess", "zepp_sapporo"}

OctDigits == {"0", "1", "2", "3", "4", "5", "6", "7"}

\* How re.sub reads a backslash in its replacement string (s starts with
\* the backslash and has a character after it): the text it stands for and
\* the number of characters read, or an error.  The pattern has no group,
\* so every group reference is an error; "chr" stands for the character an
\* octal escape names.
EscapeAt(s) ==
    LET c == s[2]
        d3 == Len(s) >= 3 /\ IsDigit(s[3])
        o3 == Len(s) >= 3 /\ s[3] \in OctDigits
        o4 == Len(s) >= 4 /\ s[4] \in OctDigits
    IN  CASE c = "n" -> [raised |-> FALSE, out |-> <<"nl">>, used |-> 2]
          [] c = "a" -> [raised |-> FALSE, out |-> <<"bel">>, used |-> 2]
          [] c = "b" -> [raised |-> FALSE, out |-> <<"bs">>, used |-> 2]
          [] c = "\\" -> [raised |-> FALSE, out |-> <<"\\">>, used |-> 2]
          [] c = "0" ->
               [raised |-> FALSE, out |-> <<"chr">>,
                used |-> IF o3 /\ o4 THEN 4 ELSE IF o3 THEN 3 ELSE 2]
          [] IsDigit(c) /\ c # "0" ->
               IF c \in OctDigits /\ o3 /\ o4
               THEN [raised |-> DigitVal(c) > 3, out |-> <<"chr">>, used |-> 4]
               ELSE [raised |-> TRUE, out |-> <<>>, used |-> IF d3 THEN 3 ELSE 2]
          [] c \in AsciiLetters \ {"n", "a", "b"} ->
               [raised |-> TRUE, out |-> <<>>, used |-> 2]
          [] OTHER -> [raised |-> FALSE, out |-> <<"\\", c>>, used |-> 2]

RECURSIVE BadEscape(_)
\* The replacement string s makes re.sub raise re.error.
BadEscape(s) ==
    IF Len(s) < 2 THEN FALSE
    ELSE IF Head(s) # "\\" THEN BadEscape(Tail(s))
    ELSE EscapeAt(s).raised \/ BadEscape(SubSeq(s, EscapeAt(s).used + 1, Len(s)))

RECURSIVE Expanded(_)
\* What re.sub inserts for the replacement string s: a backslash at the end
\* of s, or before a character that is neither a letter nor a digit, stays.
Expanded(s) ==
    IF Len(s) < 2 THEN s
    ELSE IF Head(s) # "\\" THEN <<Head(s)>> \o Expanded(Tail(s))
    ELSE EscapeAt(s).out \o Expanded(SubSeq(s, EscapeAt(s).used + 1, Len(s)))

\* A tagged tuple of texts (the flyer, a link): the tag and its texts.
TaggedTexts(t) == {t[k] : k \in 2..Len(t)}

\* The texts a card puts between its markup; every one of them is followed
\* there by a character that is neither a letter nor a digit.
CardTexts(card) ==
    {card.title, card.site, card.date_chip, card.venue, card.open, card.start,
     card.end, card.url, card.note}
    \cup TaggedTexts(card.flyer)
    \cup UNION {TaggedTexts(card.links[i]) : i \in 1..Len(card.links)}

ExpandedTagged(t) == [k \in 1..Len(t) |-> IF k = 1 THEN t[k] ELSE Expanded(t[k])]

\* The card as re.sub inserts it.
ExpandedCard(card) ==
    [kind |-> card.kind,
     flyer |-> ExpandedTagged(card.flyer),
     title |-> Expanded(card.title),
     site |-> Expanded(card.site),
     date_chip |-> Expanded(card.date_chip),
     venue |-> Expanded(card.venue),
     open |-> Expanded(card.open),
     start |-> Expanded(card.start),
     end |-> Expanded(card.end),
     url |-> Expanded(card.url),
     links |-> [i \in 1..Len(card.links) |-> ExpandedTagged(card.links[i])],
     note |-> Expanded(card.note)]

\* re.error, the exception of re.sub for a bad replacement string.
RE_ERROR == <<"bad escape">>

\* The two re.sub calls and the write: the block is the replacement string
\* of the second, which is parsed whether or not the template has a span.
Substituted(doc, cards) ==
    IF \E i \in 1..Len(cards) : \E t \in CardTexts(cards[i]) : BadEscape(t)
    THEN Raised(RE_ERROR)
    ELSE Returned(ReplaceSpan(doc, [i \in 1..Len(cards) |-> ExpandedCard(cards[i])]))

\* render_from_template: the document written to out_path, or the
\* exception that leaves out_path unwritten.
render_from_template(tpl, date_obj, site_results) ==
    Substituted(StampDate([i \in 1..Len(tpl) |-> Lit(tpl[i])], date_obj),
                render_global_block(date_obj, SortedSites(site_results, <<>>)))

-----------------------------------------------------------------------------
(* main()                                                                  *)

\* The most sources a configuration file lists.
MaxSources == 2

\* The entries of the configuration files of the runs: type, label (None:
\* no label key) and the enabled flag.
MainConfs ==
    { [type |-> "kitara", label |-> <<"a">>, enabled |-> TRUE],
      [type |-> "sapporo_community_plaza", label |-> None, enabled |-> TRUE],
      [type |-> "axes", label |-> <<"c">>, enabled |-> TRUE],
      [type |-> "wess", label |-> <<"b">>, enabled |-> TRUE],
      [type |-> "other_type", label |-> None, enabled |-> TRUE],
      [type |-> "musicfun", label |-> <<"a">>, enabled |-> FALSE] }

\* The templates of the runs.
Templates ==
    { <<"text", "DATE_PH", "START", "text", "END", "text">>,
      <<"DATE_PH", "text", "END">>,
      <<"START", "END", "DATE_PH", "text", "START", "text", "END", "DATE_PH">> }

\* The --date arguments of the runs: none, the empty text, the target date,
\* a malformed one.
DateArgs == {None, <<>>, isoformat(TargetDate), <<"2", "0", "2", "5", "/", "5", "/", "1">>}

\* What the sources of a run of main() can serve.
MainWorlds ==
    LET u1ok == CHOOSE d \in DetailPages : d.ok /\ d.title = <<"b">>
        u2ok == CHOOSE d \in DetailPages : d.ok /\ d.wtext # None
        bad  == CHOOSE d \in DetailPages : ~d.ok /\ d.msg # <<>>
        b1 == CHOOSE b \in Blocks : b.dk = "target" /\ b.complete /\ b.title = <<"a">>
        b2 == CHOOSE b \in Blocks : b.dk = "target" /\ b.complete /\ b.title = <<"b">>
        b3 == [b2 EXCEPT !.title = <<"a", "\\", "D">>]
    IN  { World(FetchFailed(<<"timed out">>), FALSE, TRUE, TRUE, TRUE, <<>>, NoDetails),
          World(FetchOk, FALSE, TRUE, TRUE, TRUE, <<>>, NoDetails),
          World(FetchOk, FALSE, TRUE, TRUE, TRUE, <<b1, b2>>,
                (<<"u1">> :> u1ok) @@ (<<"u2">> :> bad)),
          World(FetchOk, FALSE, TRUE, TRUE, TRUE, <<b2>>,
                (<<"u1">> :> u1ok) @@ (<<"u2">> :> u2ok)),
          World(FetchOk, FALSE, TRUE, TRUE, TRUE, <<b3>>,
                (<<"u1">> :> u1ok) @@ (<<"u2">> :> u2ok)) }

\* dt.date.fromisoformat(args.date), or today's date without --date.
DateOf(date_arg) ==
    IF Falsy(date_arg) THEN Returned(TargetDate)
    ELSE IF \E d \in TargetDates : isoformat(d) = date_arg
    THEN Returned(CHOOSE d \in TargetDates : isoformat(d) = date_arg)
    ELSE Raised(<<"Invalid isoformat string">>)

\* load_config: the enabled entries, in the order of the file.
load_config(config) == SelectSeq(config, LAMBDA c : c.enabled)

\* label = src.get("label", src.get("type", "source"))
MainLabel(src) == IF src.label = None THEN <<src.type>> ELSE src.label

\* A variant of the failure result that carries no note.
FailureResultNoNote(src, date_obj, msg) ==
    SiteResult(src.type, MainLabel(src), date_obj, <<>>, <<>>)

\* The SiteResult main() appends when run_scraper raises.
FailureResult(src, date_obj, msg) ==
    SiteResult(src.type, MainLabel(src), date_obj, <<>>, FAILED_PREFIX \o msg)

\* A variant of the start that does not look for the template file.
MainStartWithoutTemplateCheck ==
    /\ pc = "start"
    /\ IF DateOf(args.date).raised \/ ~args.config_exists
       THEN /\ pc' = "done"
            /\ exit_code' = 2
            /\ UNCHANGED <<sources, idx>>
       ELSE /\ pc' = "loop"
            /\ sources' = load_config(args.config)
            /\ idx' = 1
            /\ UNCHANGED exit_code
    /\ UNCHANGED <<args, template, results, outcomes, rendered,
                   fetchVars, sortVars, scrapeVars, renderVars, timeVars>>

\* The start of main(): the date argument and the two files are checked,
\* then the configuration is loaded.
MainStart ==
    /\ pc = "start"
    /\ IF DateOf(args.date).raised \/ ~args.config_exists \/ ~args.template_exists
       THEN /\ pc' = "done"
            /\ exit_code' = 2
            /\ UNCHANGED <<sources, idx>>
       ELSE /\ pc' = "loop"
            /\ sources' = load_config(args.config)
            /\ idx' = 1
            /\ UNCHANGED exit_code
    /\ UNCHANGED <<args, template, results, outcomes, rendered,
                   fetchVars, sortVars, scrapeVars, renderVars, timeVars>>

\* A variant of the round whose except clause appends nothing.
ScrapeSourceSkipsFailure ==
    /\ pc = "loop"
    /\ idx <= Len(sources)
    /\ \E world \in MainWorlds :
        \E out \in {run_scraper(sources[idx], DateOf(args.date).value, world)} :
              /\ results' = IF out.raised THEN results ELSE Append(results, out.value)
              /\ outcomes' = Append(outcomes, [raised |-> out.raised, msg |-> out.msg])
    /\ idx' = idx + 1
    /\ UNCHANGED <<pc, args, sources, template, rendered, exit_code,
                   fetchVars, sortVars, scrapeVars, renderVars, timeVars>>

\* One round of the loop over the sources: run_scraper, and the except
\* clause that turns an exception into a SiteResult.
ScrapeSource ==
    /\ pc = "loop"
    /\ idx <= Len(sources)
    /\ \E world \in MainWorlds :
        \E out \in {run_scraper(sources[idx], DateOf(args.date).value, world)} :
              /\ results' = Append(results,
                     IF out.raised
                     THEN FailureResult(sources[idx], DateOf(args.date).value, out.msg)
                     ELSE out.value)
              /\ outcomes' = Append(outcomes, [raised |-> out.raised, msg |-> out.msg])
    /\ idx' = idx + 1
    /\ UNCHANGED <<pc, args, sources, template, rendered, exit_code,
                   fetchVars, sortVars, scrapeVars, renderVars, timeVars>>

\* After the loop: render_from_template and the return of 0; an exception
\* of render_from_template is not caught, so the interpreter ends with
\* status 1 and nothing is written.
Render ==
    /\ pc = "loop"
    /\ idx > Len(sources)
    /\ \E out \in {render_from_template(template, DateOf(args.date).value, results)} :
          /\ rendered' = IF out.raised THEN <<>> ELSE out.value
          /\ exit_code' = IF out.raised THEN 1 ELSE 0
    /\ pc' = "done"
    /\ UNCHANGED <<args, sources, template, idx, results, outcomes,
                   fetchVars, sortVars, scrapeVars, renderVars, timeVars>>

Init ==
    /\ pc = "start"
    /\ args \in [date : DateArgs, config_exists : BOOLEAN, template_exists : BOOLEAN,
                 config : SeqUpTo(MainConfs, MaxSources)]
    /\ template \in Templates
    /\ sources = <<>> /\ idx = 0 /\ results = <<>> /\ outcomes = <<>>
    /\ rendered = <<>> /\ exit_code = -1
    /\ FetchIdle /\ SortIdle /\ ScrapeIdle /\ RenderIdle /\ TimeIdle

Next == MainStart \/ ScrapeSource \/ Render

Spec == Init /\ [][Next]_vars

-----------------------------------------------------------------------------
(* render_from_template: one call on drawn site results                    *)

\* The most site results handed to render_from_template in the render check.
MaxRenderSites == 2

T2100 == <<"2", "1", ":", "0", "0">>

T2600 == <<"2", "6", ":", "0", "0">>

\* An event of the target date with the given title, times and detail link.
RenderEvent(title, start_time, end_time, url) ==
    [EventItem(<<"a">>, title, isoformat(TargetDate), <<"c">>)
        EXCEPT !.start_time = start_time, !.end_time = end_time, !.url = url]

\* The events of the render check: with and without an end time, with and
\* without the estimation flag, two that differ in the detail link only, times out of range, dates that are no
\* date, and titles with a backslash.
RenderEvents ==
    { RenderEvent(<<"a">>, T1900, T2100, <<"u1">>),
      RenderEvent(<<"a">>, T1900, T2100, <<"u2">>),
      RenderEvent(<<"a">>, T1900, NOT_SPECIFIED, <<"u1">>),
      [RenderEvent(<<"a">>, T1900, T2100, <<"u1">>) EXCEPT !.end_estimated = TRUE],
      [RenderEvent(<<"a">>, T1900, NOT_SPECIFIED, <<"u1">>) EXCEPT !.end_estimated = TRUE],
      RenderEvent(<<"a">>, T1900, <<>>, <<"u1">>),
      RenderEvent(<<"a">>, NOT_SPECIFIED, T2100, <<"u1">>),
      RenderEvent(<<"b">>, T2500, T2600, <<"u1">>),
      [RenderEvent(<<"b">>, T1900, T2100, <<"u1">>) EXCEPT !.date_iso = <<>>],
      [RenderEvent(<<"b">>, T1900, T2100, <<"u1">>)
          EXCEPT !.date_iso = <<"2", "0", "2", "5", "-", "1", "3", "-", "4", "5">>],
      RenderEvent(<<"a", "<", "b">>, NOT_SPECIFIED, NOT_SPECIFIED, <<"u1">>),
      RenderEvent(<<"a", "\\", "D">>, NOT_SPECIFIED, NOT_SPECIFIED, <<"u1">>),
      RenderEvent(<<"a", "\\", "n">>, NOT_SPECIFIED, NOT_SPECIFIED, <<"u1">>),
      RenderEvent(<<"a", "\\">>, NOT_SPECIFIED, NOT_SPECIFIED, <<"u1">>) }

\* The site results of the render check: no event (with its note) or one
\* event, under one of two labels.
RenderSites ==
    {SiteResult("kitara", label, TargetDate, <<>>, NO_MATCH) : label \in {<<"a">>, <<"b">>}}
    \cup {SiteResult("kitara", label, TargetDate, <<ev>>, <<>>) :
              label \in {<<"a">>, <<"b">>}, ev \in RenderEvents}

RenderCall ==
    /\ r_pc = "call"
    /\ r_out' = render_from_template(r_tpl, TargetDate, r_results)
    /\ r_pc' = "rendered"
    /\ UNCHANGED <<r_tpl, r_results, fetchVars, sortVars, scrapeVars, mainVars, timeVars>>

InitRender ==
    /\ r_pc = "call"
    /\ r_tpl \in Templates
    /\ r_results \in SeqUpTo(RenderSites, MaxRenderSites)
    /\ r_out = <<>>
    /\ FetchIdle /\ SortIdle /\ ScrapeIdle /\ MainIdle /\ TimeIdle

NextRender == RenderCall

SpecRender == InitRender /\ [][NextRender]_vars

-----------------------------------------------------------------------------
(* normalize_hhmm: one call on a drawn value                               *)

\* The longest text handed to normalize_hhmm in the time check.
MaxTimeLen == 5

\* The characters of those texts.
TimeChars == {"0", "2", "5", "9", ":"}

NormalizeCall ==
    /\ n_pc = "call"
    /\ n_out' = normalize_hhmm(n_in)
    /\ n_pc' = "done"
    /\ UNCHANGED <<n_in, fetchVars, sortVars, scrapeVars, mainVars, renderVars>>

InitTime ==
    /\ n_pc = "call"
    /\ n_in \in {None} \cup SeqUpTo(TimeChars, MaxTimeLen)
    /\ n_out = <<>>
    /\ FetchIdle /\ SortIdle /\ ScrapeIdle /\ MainIdle /\ RenderIdle

NextTime == NormalizeCall

SpecTime == InitTime /\ [][NextTime]_vars

-----------------------------------------------------------------------------
(* Properties of main(): the aggregation loop                              *)

\* C1: when the loop of main() is over, results holds exactly one SiteResult
\* per enabled configured source, the i-th result belonging to the i-th
\* source, whatever the adapters returned or raised; while the loop runs,
\* results holds one result per source handled so far.
C1_OneResultPerSource ==
    /\ pc \in {"loop", "done"} /\ exit_code # 2 => sources = load_config(args.config)
    /\ pc = "loop" => Len(results) = idx - 1
    /\ pc = "done" /\ exit_code # 2 => Len(results) = Len(sources)
    /\ Len(outcomes) = Len(results)
    /\ \A i \in 1..Len(results) :
          /\ i <= Len(sources)
          /\ results[i].key = sources[i].type
          /\ results[i].date_obj = DateOf(args.date).value

\* A run of two sources whose first adapter raised and whose second returned.
C1_Witness ==
    /\ pc = "done" /\ exit_code = 0
    /\ Len(sources) = 2 /\ Len(results) = 2
    /\ outcomes[1].raised /\ ~outcomes[2].raised

\* C2: an exception an adapter raises inside run_scraper becomes a
\* SiteResult with no event and a non-empty failure note; it does not leave
\* the loop: the run is not aborted, the loop stands at the source after
\* the last one handled, and once every source has been handled
\* render_from_template is called: main() returns 0 with the document
\* written, unless render_from_template itself raises.
C2_ExceptionIsolated ==
    \A i \in 1..Len(outcomes) :
        outcomes[i].raised =>
            /\ results[i].events = <<>>
            /\ results[i].note # <<>>
            /\ results[i].note = FAILED_PREFIX \o outcomes[i].msg
            /\ pc \in {"loop", "done"}
            /\ pc = "loop" => exit_code = -1 /\ rendered = <<>> /\ idx = Len(outcomes) + 1
            /\ pc = "done" =>
                  /\ Len(outcomes) = Len(sources)
                  /\ \E out \in {render_from_template(template, DateOf(args.date).value,
                                                      results)} :
                        IF out.raised THEN exit_code = 1 /\ rendered = <<>>
                        ELSE exit_code = 0 /\ rendered = out.value /\ rendered # <<>>

\* A finished run whose first adapter raised and whose second source was
\* scraped all the same.
C2_Witness ==
    /\ pc = "done" /\ exit_code = 0 /\ rendered # <<>>
    /\ Len(outcomes) = 2
    /\ outcomes[1].raised
    /\ results[2].events # <<>>

-----------------------------------------------------------------------------
(* Properties of fetch_text / fetch_bytes                                  *)

\* C3: a call of fetch_text / fetch_bytes issues at most two requests.  The
\* first is verified with the caller's deadline.  A second one exists only
\* after a first failure that is a certificate failure (then it is
\* unverified) or, failing that, a timeout (then its deadline is at least
\* twice the caller's).  Any other first failure, and any outcome of the
\* retry, ends the call: the body is returned or the failure is raised.
C3_AtMostOneRetry ==
    /\ Len(f_reqs) <= 2
    /\ Len(f_reqs) >= 1 => f_reqs[1] = Request(TRUE, f_timeout)
    /\ f_pc = "call" <=> f_reqs = <<>>
    /\ f_pc \in {"retry_unverified", "retry_timeout"} => Len(f_reqs) = 1
    /\ Len(f_reqs) = 2 \/ f_pc \in {"retry_unverified", "retry_timeout"} =>
          /\ ~f_first.ok
          /\ IsCertFailure(f_first.msg) \/ IsTimeout(f_first.msg)
    /\ Len(f_reqs) = 2 /\ IsCertFailure(f_first.msg) =>
          f_reqs[2] = Request(FALSE, f_timeout)
    /\ Len(f_reqs) = 2 /\ ~IsCertFailure(f_first.msg) =>
          /\ f_reqs[2].verify
          /\ f_reqs[2].timeout >= 2 * f_timeout
    /\ f_pc \in {"returned", "raised"} =>
          /\ f_pc = "returned" <=> f_out.ok
          /\ Len(f_reqs) = 1 =>
                /\ f_out = f_first
                /\ f_first.ok \/ (~IsCertFailure(f_first.msg) /\ ~IsTimeout(f_first.msg))

\* A call of default deadline whose first request timed out and whose retry,
\* with the doubled deadline, failed as well.
C3_Witness ==
    /\ f_pc = "raised"
    /\ Len(f_reqs) = 2
    /\ IsTimeout(f_first.msg) /\ ~IsCertFailure(f_first.msg)
    /\ f_timeout = 20 /\ f_reqs[2].timeout = 40
    /\ IsTimeout(f_out.msg)

-----------------------------------------------------------------------------
(* Properties of one adapter run                                           *)

\* C4: in kitara, sapporo_community_plaza, musicfun and mountalive, when the
\* listing fetch succeeds and the detail fetch of a matched unit fails, the
\* adapter returns normally with at least as many events as it matched
\* listing units for the target date.
C4_DetailFailureKeepsEvents ==
    (/\ a_pc = "done"
     /\ a_key \in DetailAdapters
     /\ a_world.listing.ok
     /\ ~InvalidDateItem(a_world)
     /\ DetailFailed(a_key, a_world))
    => /\ ~a_out.raised
       /\ Len(a_out.value.events) >= MatchedCount(a_key, a_world)

\* C5: when the detail fetch of a matched unit fails, the SiteResult the
\* adapter returns has a non-empty note.
C5_DetailFailureNoted ==
    (/\ a_pc = "done"
     /\ a_key \in DetailAdapters
     /\ a_world.listing.ok
     /\ DetailFailed(a_key, a_world)
     /\ ~a_out.raised)
    => a_out.value.note # <<>>

\* The listing fetch of a finished run succeeded and no unit matched.
ZeroMatch ==
    /\ a_pc = "done"
    /\ a_world.listing.ok
    /\ MatchedCount(a_key, a_world) = 0

PaddedClockTime(s) ==
    /\ Len(s) = 5
    /\ IsDigit(s[1]) /\ IsDigit(s[2]) /\ s[3] = ":" /\ IsDigit(s[4]) /\ IsDigit(s[5])
    /\ IntOf(SubSeq(s, 1, 2)) <= 23
    /\ IntOf(SubSeq(s, 4, 5)) <= 59

\* C8: the start_time of every event of every SiteResult an adapter returns
\* is the "not specified" sentinel or a zero-padded HH:MM token with hour
\* 00..23 and minute 00..59.
C8_StartTimeWellFormed ==
    a_pc = "done" /\ ~a_out.raised =>
        \A i \in 1..Len(a_out.value.events) :
            \/ a_out.value.events[i].start_time = NOT_SPECIFIED
            \/ PaddedClockTime(a_out.value.events[i].start_time)

-----------------------------------------------------------------------------
(* Properties of the document                                              *)

\* Whether the template holds a span from the start marker to an end marker.
HasSpan(tpl) ==
    \E i, j \in 1..Len(tpl) : i < j /\ tpl[i] = "START" /\ tpl[j] = "END"

\* The cards of the block parts of a document.
BlockCards(doc) ==
    {doc[i].cards : i \in {j \in 1..Len(doc) : doc[j].kind = "block"}}

\* The document of a finished run whose template holds the marker span.
Rendered == pc = "done" /\ exit_code = 0 /\ HasSpan(template)

-----------------------------------------------------------------------------
(* Properties of sort_events                                               *)

\* The lists that hold the elements of seq in another order (or the same).
Reorderings(seq) ==
    {[i \in 1..Len(seq) |-> seq[f[i]]] :
        f \in {g \in [1..Len(seq) -> 1..Len(seq)] :
                  \A i, j \in 1..Len(seq) : g[i] = g[j] => i = j}}

\* C9: sort_events gives the same list for every order of the same events,
\* and sorting a sorted list changes nothing.
C9_OrderIndependent ==
    s_pc = "sorted" =>
        /\ sort_events(s_out) = s_out
        /\ \A p \in Reorderings(s_in) : sort_events(p) = s_out

\* An \d{1,2}:\d{2} token whose hour is at most 23 and minute at most 59.
ClockTime(s) ==
    /\ FullMatchHHMM(s)
    /\ IntOf(TimeAt(s, 1).h) <= 23
    /\ IntOf(TimeAt(s, 1).m) <= 59

\* The minutes since midnight of a clock time.
Minutes(s) == 60 * IntOf(TimeAt(s, 1).h) + IntOf(TimeAt(s, 1).m)

\* The key the specification gives: the start time counts only when it is
\* a clock time.
StatedKey(ev) ==
    <<ev.date_iso,
      IF ClockTime(ev.start_time) THEN ev.start_time ELSE <<"9", "9", ":", "9", "9">>,
      ev.title>>

\* C10: the list sort_events returns is ascending by (date_iso, effective
\* start time, title), the effective start time being the start time when it
\* is a clock time and "99:99" otherwise; so on one date every event with a
\* clock time comes before every event without one, and the events with
\* clock times come in the order of the clock.
C10_ChronologicalOrder ==
    s_pc = "sorted" =>
        \A i, j \in 1..Len(s_out) :
            i < j =>
                /\ ~KeyLess(StatedKey(s_out[j]), StatedKey(s_out[i]))
                /\ s_out[i].date_iso = s_out[j].date_iso /\ ClockTime(s_out[j].start_time) =>
                      /\ ClockTime(s_out[i].start_time)
                      /\ Minutes(s_out[i].start_time) <= Minutes(s_out[j].start_time)

\* C11: two events of one date whose start times are both no clock time
\* (the sentinel, or a token whose hour or minute is out of range) come out
\* of sort_events in lexicographic order of their titles.
C11_TitleOrderWithoutStart ==
    s_pc = "sorted" =>
        \A i, j \in 1..Len(s_out) :
            /\ i < j
            /\ s_out[i].date_iso = s_out[j].date_iso
            /\ ~ClockTime(s_out[i].start_time)
            /\ ~ClockTime(s_out[j].start_time)
            => ~StrLess(s_out[j].title, s_out[i].title)

-----------------------------------------------------------------------------
(* Properties of the renderer                                              *)

\* The call of the render check has written a document.
RenderWritten == r_pc = "rendered" /\ ~r_out.raised

\* The calendar anchors of a card.
GcalLinks(card) == {card.links[i] : i \in {k \in 1..Len(card.links) : card.links[k][1] = "gcal"}}

\* A YYYY-MM-DD text that names a month 01..12 and a day 01..31.
IsoDate(s) ==
    /\ FullMatchDate(s)
    /\ IntOf(SubSeq(s, 6, 7)) \in 1..12
    /\ IntOf(SubSeq(s, 9, 10)) \in 1..31

\* C12: a card carries the calendar anchor only when the date, the start
\* time and the end time it is built from are all well-formed: the date an
\* ISO date, the two times HH:MM clock times within range.
C12_GcalOnlyWhenWellFormed ==
    RenderWritten =>
        \A cards \in BlockCards(r_out.value) :
            \A i \in 1..Len(cards) :
                \A g \in GcalLinks(cards[i]) :
                    IsoDate(g[3]) /\ ClockTime(g[4]) /\ ClockTime(g[5])

\* A YYYY/MM/DD date chip, as the card shows an ISO date.
DateChip(s) == Len(s) = 10 /\ IsoDate([s EXCEPT ![5] = "-", ![8] = "-"]) /\ s[5] = "/" /\ s[8] = "/"

\* C13: a card whose date is a YYYY-MM-DD date and whose start and end
\* times are zero-padded HH:MM tokens carries the calendar anchor; a card
\* whose end time is the sentinel carries none.
C13_GcalExample ==
    RenderWritten =>
        \A cards \in BlockCards(r_out.value) :
            \A i \in 1..Len(cards) :
                cards[i].kind = "event" =>
                    /\ (/\ DateChip(cards[i].date_chip)
                        /\ PaddedClockTime(cards[i].start)
                        /\ PaddedClockTime(cards[i].end))
                       => GcalLinks(cards[i]) # {}
                    /\ cards[i].end = NOT_SPECIFIED => GcalLinks(cards[i]) = {}

\* A document with two cards of the date 2025-05-01 and the start time
\* 19:00: the one with the end time 21:00 carries the anchor, the one with
\* the sentinel carries none.
C13_Witness ==
    /\ RenderWritten
    /\ \E cards \in BlockCards(r_out.value) :
          \E i, j \in 1..Len(cards) :
              /\ cards[i].date_chip = <<"2", "0", "2", "5", "/", "0", "5", "/", "0", "1">>
              /\ cards[i].start = T1900 /\ cards[i].end = T2100
              /\ GcalLinks(cards[i]) # {}
              /\ cards[j].date_chip = cards[i].date_chip
              /\ cards[j].title = cards[i].title
              /\ cards[j].start = T1900 /\ cards[j].end = NOT_SPECIFIED
              /\ GcalLinks(cards[j]) = {}

\* The document the specification describes for a template with the marker
\* span and the date placeholder: the first placeholder shows the date, the
\* first span from a start marker to the next end marker holds the fragment
\* as rendered, every other piece is the template's.
FilledTemplate(tpl, date_obj, cards) ==
    LET p == Min({k \in 1..Len(tpl) : tpl[k] = "DATE_PH"})
        i == Min({k \in 1..Len(tpl) :
                     tpl[k] = "START" /\ \E l \in (k + 1)..Len(tpl) : tpl[l] = "END"})
        j == Min({k \in (i + 1)..Len(tpl) : tpl[k] = "END"})
        stamped == [k \in 1..Len(tpl) |-> IF k = p THEN DateStamp(date_obj) ELSE Lit(tpl[k])]
    IN  SubSeq(stamped, 1, i - 1) \o <<BlockPart(cards)>> \o SubSeq(stamped, j + 1, Len(tpl))

\* C14: for a template with the two markers and the date placeholder,
\* render_from_template writes the template with the first marker span
\* replaced by the rendered fragment of all events in global order, inserted
\* as rendered, and the first date placeholder replaced by the ISO date;
\* all other template text is unchanged.
C14_TemplateFilledVerbatim ==
    /\ r_pc = "rendered"
    /\ HasSpan(r_tpl)
    /\ \E k \in 1..Len(r_tpl) : r_tpl[k] = "DATE_PH"
    => /\ ~r_out.raised
       /\ r_out.value =
             FilledTemplate(r_tpl, TargetDate,
                            render_global_block(TargetDate, SortedSites(r_results, <<>>)))

\* C15: for a template without the marker pair render_from_template raises
\* an error of its own instead of writing a document without the events.
C15_MissingMarkersSignalled ==
    r_pc = "rendered" /\ ~HasSpan(r_tpl) => r_out.raised /\ r_out.msg # RE_ERROR

-----------------------------------------------------------------------------
(* Properties of main(): configuration errors                              *)

\* The run was started with a malformed --date, or without the
\* configuration file or the template file.
ConfigError ==
    DateOf(args.date).raised \/ ~args.config_exists \/ ~args.template_exists

\* C16: a run of main() with a malformed --date argument or without the
\* config or the template file ends with exit code 2 at its first step: no
\* source is loaded, no adapter is run (so nothing is fetched) and nothing
\* is rendered; no other run ends with that code.
C16_ConfigErrorExitsFirst ==
    pc \in {"loop", "done"} =>
        /\ ConfigError <=> exit_code = 2
        /\ ConfigError =>
              /\ pc = "done"
              /\ sources = <<>> /\ idx = 0
              /\ outcomes = <<>> /\ results = <<>>
              /\ rendered = <<>>

\* A run with a malformed --date whose configuration file lists an enabled
\* source has ended with code 2, and one whose template file is absent.
C16_Witness ==
    /\ pc = "done" /\ exit_code = 2
    /\ load_config(args.config) # <<>>
    /\ \/ DateOf(args.date).raised /\ args.config_exists /\ args.template_exists
       \/ ~DateOf(args.date).raised /\ args.config_exists /\ ~args.template_exists

-----------------------------------------------------------------------------
(* Properties of the digest                                                *)

\* C17: render_from_template gives the same outcome for every order in
\* which the same site results stand in the list it is handed.
C17_ArrivalOrderIndependent ==
    r_pc = "rendered" =>
        \A p \in Reorderings(r_results) :
            render_from_template(r_tpl, TargetDate, p) = r_out

-----------------------------------------------------------------------------
(* Properties of the site results and events of the adapters               *)

\* C18: the note of the SiteResult an adapter returns is non-empty exactly
\* when the result has no event or the detail fetch of a matched unit
\* failed during the scrape.
C18_NoteIffEmptyOrDetailFailure ==
    a_pc = "done" /\ ~a_out.raised =>
        (a_out.value.note # <<>>
            <=> \/ a_out.value.events = <<>>
                \/ a_key \in DetailAdapters /\ DetailFailed(a_key, a_world))

\* C19: in every event an adapter returns, flyer_missing is non-empty
\* exactly when flyer_image is empty.
C19_FlyerMissingIffNoImage ==
    a_pc = "done" /\ ~a_out.raised =>
        \A i \in 1..Len(a_out.value.events) :
            a_out.value.events[i].flyer_missing # <<>>
                <=> a_out.value.events[i].flyer_image = <<>>

\* A kitara run returned two events whose detail pages show no image: the
\* flyer of one is the thumbnail of its listing card, with flyer_missing
\* empty; the other has no image and says so.
C19_Witness ==
    /\ a_pc = "done" /\ ~a_out.raised
    /\ a_key = "kitara"
    /\ \E i, j \in 1..Len(a_out.value.events) :
          /\ a_world.details[a_out.value.events[i].url].img = None
          /\ a_out.value.events[i].flyer_image # <<>>
          /\ a_out.value.events[i].flyer_missing = <<>>
          /\ a_world.details[a_out.value.events[j].url].img = None
          /\ a_out.value.events[j].flyer_image = <<>>
          /\ a_out.value.events[j].flyer_missing = NO_FLYER

\* C20: in every event an adapter returns, open_time, start_time, end_time
\* and venue are texts and none of them is empty.
C20_TimesAndVenuePresent ==
    a_pc = "done" /\ ~a_out.raised =>
        \A i \in 1..Len(a_out.value.events) :
            \A v \in {a_out.value.events[i].open_time, a_out.value.events[i].start_time,
                      a_out.value.events[i].end_time, a_out.value.events[i].venue} :
                ~Falsy(v)

-----------------------------------------------------------------------------
(* Properties of normalize_hhmm                                            *)

\* C21: normalize_hhmm returns no match or a zero-padded HH:MM clock time;
\* for a value that is an H:MM or HH:MM clock time it returns that hour and
\* minute, the hour zero-padded; for any other value made of digits and
\* colons (a malformed token such as 9:5) it returns no match.
C21_StrictTokenOrNoMatch ==
    n_pc = "done" =>
        /\ n_out = None \/ PaddedClockTime(n_out)
        /\ ClockTime(n_in) =>
              n_out = Fmt02(IntOf(TimeAt(n_in, 1).h)) \o <<":">> \o TimeAt(n_in, 1).m
        /\ ~ClockTime(n_in) => n_out = None

-----------------------------------------------------------------------------
(* Properties of render_event_card                                         *)

\* The text ends with the estimation qualifier.
Qualified(text) == text # <<>> /\ text[Len(text)] = ESTIMATED[1]

\* The end-time texts of the cards against the events they show, in order.
EndDisplays(events, cards) ==
    /\ Len(cards) = Len(events)
    /\ \A i \in 1..Len(events) :
          /\ Qualified(cards[i].end)
                <=> events[i].end_estimated /\ FullMatchHHMM(events[i].end_time)
          /\ cards[i].end = IF Qualified(cards[i].end)
                            THEN events[i].end_time \o ESTIMATED
                            ELSE OrElse(events[i].end_time, NOT_SPECIFIED)

-----------------------------------------------------------------------------
(* Properties of main(): the dates of the collected events                 *)

\* The date chips of the event cards of a document.
EventDateChips(doc) ==
    UNION {{cards[i].date_chip : i \in {k \in 1..Len(cards) : cards[k].kind = "event"}} :
              cards \in BlockCards(doc)}

\* C23: every event of every SiteResult main() has collected carries the
\* ISO form of the run's target date as date_iso, from the moment its
\* SiteResult is appended to the end of the run; sorting keeps it, and every
\* event card of the written document shows that date.
C23_DateIsoIsTargetDate ==
    pc \in {"loop", "done"} /\ exit_code # 2 =>
        /\ \A i \in 1..Len(results) :
              /\ \A e \in 1..Len(results[i].events) :
                    results[i].events[e].date_iso = isoformat(DateOf(args.date).value)
              /\ \A e \in 1..Len(results[i].events) :
                    sort_events(results[i].events)[e].date_iso
                        = isoformat(DateOf(args.date).value)
        /\ pc = "done" /\ exit_code = 0 =>
              EventDateChips(rendered) \subseteq
                  {DashToSlash(isoformat(DateOf(args.date).value))}

\* A finished run that collected kitara events and plaza events and wrote
\* a document with event cards.
C23_Witness ==
    /\ pc = "done" /\ exit_code = 0
    /\ \E i, j \in 1..Len(results) :
          /\ results[i].key = "kitara" /\ results[i].events # <<>>
          /\ results[j].key = "sapporo_community_plaza" /\ results[j].events # <<>>
    /\ EventDateChips(rendered) # {}

-----------------------------------------------------------------------------
(* Properties of the detail cache of scrape_musicfun / scrape_mountalive   *)

\* The run of the scrape check is one of scrape_musicfun or
\* scrape_mountalive whose loop over the listing came to its end.
CacheRun ==
    /\ a_pc = "done"
    /\ a_key \in {"musicfun", "mountalive"}
    /\ a_world.listing.ok
    /\ ~a_out.raised

\* The state of that loop at its end: the cache, the detail URLs fetched in
\* order, and the events.
LoopEnd ==
    IF a_key = "musicfun"
    THEN MusicfunItems(a_world.blocks, TargetDate, ScrapeLabel, a_world.details, EmptyAcc)
    ELSE MountaliveItems(a_world.blocks, TargetDate, ScrapeLabel, a_world.details,
                         EmptyAcc).value

\* What C24 says of the end of a loop.
FetchedOnce(acc) ==
    /\ acc.events = a_out.value.events
    /\ \A i, j \in 1..Len(acc.fetched) : acc.fetched[i] = acc.fetched[j] => i = j
    /\ {acc.fetched[i] : i \in 1..Len(acc.fetched)} = DOMAIN acc.cache
    /\ {acc.events[i].url : i \in 1..Len(acc.events)} = DOMAIN acc.cache
    /\ \A u \in DOMAIN acc.cache :
          ~a_world.details[u].ok => acc.cache[u] = EmptyDetail
    /\ \A i, j \in 1..Len(acc.events) :
          acc.events[i].url = acc.events[j].url =>
              /\ acc.events[i].open_time = acc.events[j].open_time
              /\ acc.events[i].start_time = acc.events[j].start_time
              /\ acc.events[i].end_time = acc.events[j].end_time
    /\ \A i \in 1..Len(acc.events) :
          ~a_world.details[acc.events[i].url].ok =>
              /\ acc.events[i].open_time = NOT_SPECIFIED
              /\ acc.events[i].start_time = NOT_SPECIFIED

\* C24: in one run of scrape_musicfun or scrape_mountalive every detail URL
\* is fetched at most once, namely for the first listing item that names
\* it; what that fetch gave (the parsed fields, or the all-empty record
\* after a failure) is cached, so a failed fetch is not tried again and all
\* items of one URL get the same times.
C24_DetailFetchedOnce == CacheRun => FetchedOnce(LoopEnd)

\* A run with two events of one detail URL whose fetch failed: one fetch,
\* and both events without times.
C24_Witness ==
    /\ CacheRun
    /\ Len(a_out.value.events) = 2
    /\ a_out.value.events[1].url = a_out.value.events[2].url
    /\ ~a_world.details[a_out.value.events[1].url].ok
    /\ a_out.value.events[1].start_time = NOT_SPECIFIED
    /\ a_out.value.events[2].start_time = NOT_SPECIFIED

====
